---- MODULE Spec2Model ----
(***************************************************************************)
(* A model of the sp3 crate: the SP3 record store (an ordered map of       *)
(* (SV, Epoch) keys to entries), its set algebra and dynamics operations,  *)
(* and the fixed-column text codec (reader and writer).                    *)
(*                                                                         *)
(* Text is modelled character by character: a line is a sequence of        *)
(* one-character strings, and every column slice of the source is the same *)
(* slice here.  An f64 is modelled as an exact signed decimal              *)
(* (-1)^neg * (hi * 10^6 + lo) * 10^e, so that parsing, scaling by powers  *)
(* of ten, subtraction and fixed-precision formatting are computed rather  *)
(* than assumed.                                                           *)
(***************************************************************************)
EXTENDS Integers, Sequences, FiniteSets, TLC

VARIABLES
    sp3,    \* the store the set-algebra and dynamics operations act on
    other,  \* the second operand of substract and merge
    ret,    \* the last operation: its name, its operands and what it returned
    nops,   \* number of operations applied so far
    rd,     \* the reader: the locals of SP3::from_reader between two lines
    seen    \* the line the reader consumed last, and the key it addressed

vars == <<sp3, other, ret, nops, rd, seen>>

(***************************************************************************)
(* Option<T>                                                               *)
(***************************************************************************)
None == <<>>
Some(x) == <<x>>
IsSome(o) == o # <<>>
IsNone(o) == o = <<>>
Unwrap(o) == o[1]

Min(a, b) == IF a <= b THEN a ELSE b
Max(a, b) == IF a >= b THEN a ELSE b

(***************************************************************************)
(* Text: sequences of one-character strings, sliced as Rust slices are     *)
(* (0-based, half-open).                                                   *)
(***************************************************************************)
Slice(s, a, b) == SubSeq(s, a + 1, b)
SliceFrom(s, a) == SubSeq(s, a + 1, Len(s))

RECURSIVE Spaces(_)
Spaces(n) == IF n <= 0 THEN <<>> ELSE <<" ">> \o Spaces(n - 1)

RECURSIVE TrimStart(_)
TrimStart(s) == IF Len(s) > 0 /\ s[1] = " " THEN TrimStart(Tail(s)) ELSE s

RECURSIVE TrimEnd(_)
TrimEnd(s) ==
    IF Len(s) > 0 /\ s[Len(s)] = " " THEN TrimEnd(SubSeq(s, 1, Len(s) - 1)) ELSE s

Trim(s) == TrimEnd(TrimStart(s))

StartsWith(s, p) == Len(s) >= Len(p) /\ SubSeq(s, 1, Len(p)) = p

PadLeft(s, w) == Spaces(w - Len(s)) \o s

DigitChars == <<"0", "1", "2", "3", "4", "5", "6", "7", "8", "9">>
IsDigit(c) == \E i \in 1..10 : DigitChars[i] = c
DigitValue(c) == (CHOOSE i \in 1..10 : DigitChars[i] = c) - 1
AllDigits(s) == \A i \in 1..Len(s) : IsDigit(s[i])

\* the decimal digits of a natural number, no padding
RECURSIVE Digits(_)
Digits(n) ==
    IF n < 10 THEN <<DigitChars[n + 1]>>
    ELSE Digits(n \div 10) \o <<DigitChars[(n % 10) + 1]>>

\* the decimal digits of a natural number, zero-padded to width w ({:0w})
ZeroPad(n, w) ==
    LET d == Digits(n)
    IN  [i \in 1..Max(w - Len(d), 0) |-> "0"] \o d

\* index of the first occurrence of character c in s, 0 when absent
IndexOf(s, c) ==
    IF \E i \in 1..Len(s) : s[i] = c
    THEN CHOOSE i \in 1..Len(s) : s[i] = c /\ \A j \in 1..(i - 1) : s[j] # c
    ELSE 0

(***************************************************************************)
(* f64 as an exact decimal.  The mantissa is held in two limbs of six      *)
(* digits (hi * 10^6 + lo); a value is kept normalised (no trailing zero   *)
(* digit in the mantissa, zero is 0 * 10^0 and unsigned).                  *)
(***************************************************************************)
Limb == 10^6

F64(neg, hi, lo, e) == [neg |-> neg, hi |-> hi, lo |-> lo, e |-> e]
Zero == F64(FALSE, 0, 0, 0)

RECURSIVE Norm(_)
Norm(n) ==
    IF n.hi = 0 /\ n.lo = 0 THEN Zero
    ELSE IF n.lo % 10 = 0
         THEN Norm(F64(n.neg, n.hi \div 10, (n.hi % 10) * (Limb \div 10) + n.lo \div 10, n.e + 1))
         ELSE n

\* the same value written with the smaller exponent e2
RECURSIVE ShiftTo(_, _)
ShiftTo(n, e2) ==
    IF n.e <= e2 THEN n
    ELSE ShiftTo(F64(n.neg, n.hi * 10 + (n.lo * 10) \div Limb, (n.lo * 10) % Limb, n.e - 1), e2)

MagLess(a, b) == a.hi < b.hi \/ (a.hi = b.hi /\ a.lo < b.lo)

MagAdd(a, b, neg) ==
    F64(neg, a.hi + b.hi + (a.lo + b.lo) \div Limb, (a.lo + b.lo) % Limb, a.e)

MagSub(a, b, neg) ==
    IF a.lo >= b.lo THEN F64(neg, a.hi - b.hi, a.lo - b.lo, a.e)
    ELSE F64(neg, a.hi - b.hi - 1, a.lo + Limb - b.lo, a.e)

F64Neg(n) == IF n = Zero THEN Zero ELSE [n EXCEPT !.neg = ~n.neg]

F64Add(a, b) ==
    LET e == Min(a.e, b.e)
        x == ShiftTo(a, e)
        y == ShiftTo(b, e)
    IN  IF a = Zero THEN b
        ELSE IF b = Zero THEN a
        ELSE IF x.neg = y.neg THEN Norm(MagAdd(x, y, x.neg))
        ELSE IF MagLess(x, y) THEN Norm(MagSub(y, x, y.neg))
        ELSE Norm(MagSub(x, y, x.neg))

\* a - b
F64Sub(a, b) == F64Add(a, F64Neg(b))

\* n * 10^k (the source multiplies by the literals 1.0E4, 1.0E-4, 1.0E-2, 0.1)
F64Scale10(n, k) == IF n = Zero THEN Zero ELSE [n EXCEPT !.e = n.e + k]

\* a small integer, or a count of 10^-6 units, as an f64
F64FromInt(i) ==
    IF i < 0 THEN Norm(F64(TRUE, (-i) \div Limb, (-i) % Limb, 0))
    ELSE Norm(F64(FALSE, i \div Limb, i % Limb, 0))
Micro(i) == F64Scale10(F64FromInt(i), -6)

\* f64::from_str on a trimmed field: [sign] digits [ . digits ]
RECURSIVE Mantissa(_, _, _)
Mantissa(s, hi, lo) ==
    IF s = <<>> THEN <<hi, lo>>
    ELSE LET x == lo * 10 + DigitValue(s[1])
         IN  Mantissa(Tail(s), hi * 10 + x \div Limb, x % Limb)

ParseF64(s) ==
    LET signed == Len(s) > 0 /\ s[1] \in {"-", "+"}
        neg    == Len(s) > 0 /\ s[1] = "-"
        body   == IF signed THEN Tail(s) ELSE s
        dot    == IndexOf(body, ".")
        ip     == IF dot = 0 THEN body ELSE SubSeq(body, 1, dot - 1)
        fp     == IF dot = 0 THEN <<>> ELSE SubSeq(body, dot + 1, Len(body))
        ok     == AllDigits(ip) /\ AllDigits(fp) /\ Len(ip) + Len(fp) > 0
        m      == Mantissa(ip \o fp, 0, 0)
    IN  IF ok THEN [ok |-> TRUE, v |-> Norm(F64(neg, m[1], m[2], -Len(fp)))]
        ELSE [ok |-> FALSE, v |-> Zero]

\* an unsigned integer field (u8/u32/u64::from_str on a trimmed field)
ParseUInt(s) ==
    IF Len(s) > 0 /\ AllDigits(s)
    THEN [ok |-> TRUE, v |-> Mantissa(s, 0, 0)[1] * Limb + Mantissa(s, 0, 0)[2]]
    ELSE [ok |-> FALSE, v |-> 0]

\* a / d for a small positive integer d.  An inexact quotient is cut after
\* three further decimal digits, where the f64 division rounds it.
F64DivInt(a, d) ==
    LET x  == ShiftTo(a, a.e - 3)
        r  == x.hi % d
    IN  IF a = Zero THEN Zero
        ELSE Norm(F64(a.neg, x.hi \div d, (r * Limb + x.lo) \div d, x.e))

F64MulInt(a, k) ==
    IF a = Zero \/ k = 0 THEN Zero
    ELSE Norm(F64(a.neg, a.hi * k + (a.lo * k) \div Limb, (a.lo * k) % Limb, a.e))

(***************************************************************************)
(* formatting.rs: CoordsFormatter                                          *)
(***************************************************************************)
\* the magnitude of n as a count of 10^-precision units, rounded half to even
RECURSIVE RoundDrop(_, _, _, _, _)
RoundDrop(hi, lo, k, lastd, sticky) ==
    IF k = 0
    THEN LET up == lastd > 5 \/ (lastd = 5 /\ (sticky \/ lo % 2 = 1))
         IN  IF up THEN <<hi + (lo + 1) \div Limb, (lo + 1) % Limb>> ELSE <<hi, lo>>
    ELSE RoundDrop(hi \div 10, (hi % 10) * (Limb \div 10) + lo \div 10, k - 1,
                   lo % 10, sticky \/ lastd # 0)

RoundTo(n, precision) ==
    IF n.e >= -precision
    THEN LET x == ShiftTo(n, -precision) IN <<x.hi, x.lo>>
    ELSE RoundDrop(n.hi, n.lo, (-precision) - n.e, 0, FALSE)

\* "{:.precision$}" of a non-negative magnitude
FixedDigits(n, precision) ==
    LET m   == RoundTo(n, precision)
        raw == IF m[1] = 0 THEN Digits(m[2]) ELSE Digits(m[1]) \o ZeroPad(m[2], 6)
        all == [i \in 1..Max(precision + 1 - Len(raw), 0) |-> "0"] \o raw
    IN  SubSeq(all, 1, Len(all) - precision) \o <<".">>
        \o SubSeq(all, Len(all) - precision + 1, Len(all))

\* "{:width$.precision$}"
FormatFixed(value, width, precision) ==
    PadLeft((IF value.neg THEN <<"-">> ELSE <<>>) \o FixedDigits(value, precision), width)

CoordsFormatter_fmt(value, width, precision) ==
    LET sign_str  == IF precision = 13 THEN <<>>
                     ELSE IF ~value.neg THEN <<" ">> ELSE <<>>
        formatted == IF ~value.neg THEN FormatFixed(value, width, precision)
                     ELSE FormatFixed(value, width + 1, precision)
    IN  sign_str \o formatted

Coordinates(value) == CoordsFormatter_fmt(value, 13, 6)
Fractional_mjd(value) == CoordsFormatter_fmt(value, 15, 13)

(***************************************************************************)
(* SV, Epoch, SP3Key (lib.rs) and SP3Entry (entry.rs)                      *)
(***************************************************************************)
NumSV == 2          \* satellites of the model
NumEpochs == 2      \* whole-second epochs of the model: 0 .. NumEpochs-1 seconds

\* gnss::SV is ordered by (constellation, prn) and written letter + 2-digit prn
SVTable == << [constellation |-> "GPS", prn |-> 1],
              [constellation |-> "GPS", prn |-> 2],
              [constellation |-> "Galileo", prn |-> 1],
              [constellation |-> "Galileo", prn |-> 2] >>
SVs == {SVTable[i] : i \in 1..Min(NumSV, Len(SVTable))}

ConstellationRank(c) == CASE c = "GPS" -> 0 [] c = "Galileo" -> 4 [] c = "Mixed" -> 9 [] OTHER -> 10
ConstellationLetter(c) == CASE c = "GPS" -> "G" [] c = "Galileo" -> "E" [] c = "Mixed" -> "M" [] OTHER -> "?"

SVLess(a, b) ==
    \/ ConstellationRank(a.constellation) < ConstellationRank(b.constellation)
    \/ a.constellation = b.constellation /\ a.prn < b.prn

\* hifitime::Epoch: a time scale and the time elapsed since 1900-01-01T00:00:00
\* of that scale, counted in ticks of 1/TicksPerSecond s.  Epochs are compared
\* as instants (TAI).
TicksPerSecond == 2
TaiOffsetSeconds(ts) == CASE ts = "GPST" -> 19 [] ts = "GST" -> 19 [] ts = "QZSST" -> 19 [] OTHER -> 0
Epoch(ts, t) == [ts |-> ts, t |-> t]
Tai(e) == e.t + TaiOffsetSeconds(e.ts) * TicksPerSecond
EpochEq(a, b) == Tai(a) = Tai(b)
EpochLess(a, b) == Tai(a) < Tai(b)
EpochLeq(a, b) == Tai(a) <= Tai(b)
DefaultEpoch == Epoch("TAI", 0)
DefaultTimeScale == "TAI"

\* #[derive(PartialOrd, Ord)] on SP3Key { sv, epoch }: fields compared in
\* declaration order
SP3Key(sv, epoch) == [sv |-> sv, epoch |-> epoch]
SP3KeyLess(a, b) ==
    \/ SVLess(a.sv, b.sv)
    \/ a.sv = b.sv /\ EpochLess(a.epoch, b.epoch)
SP3KeyEq(a, b) == a.sv = b.sv /\ EpochEq(a.epoch, b.epoch)

SP3Entry(position_km, velocity_km_s, predicted_orbit, maneuver, clock_event, predicted_clock, clock_us, clock_drift_ns) ==
    [position_km |-> position_km, velocity_km_s |-> velocity_km_s,
     predicted_orbit |-> predicted_orbit, maneuver |-> maneuver,
     clock_event |-> clock_event, predicted_clock |-> predicted_clock,
     clock_us |-> clock_us, clock_drift_ns |-> clock_drift_ns]

Vec3Sub(a, b) == <<F64Sub(a[1], b[1]), F64Sub(a[2], b[2]), F64Sub(a[3], b[3])>>
ZeroVec == <<Zero, Zero, Zero>>

\* impl Sub for SP3Entry
EntrySub(self, rhs) ==
    [ position_km |-> << F64Sub(self.position_km[1], rhs.position_km[1]),
                         F64Sub(self.position_km[2], self.position_km[2]),
                         F64Sub(self.position_km[3], rhs.position_km[3]) >>,
      velocity_km_s |->
          IF IsSome(self.velocity_km_s)
          THEN IF IsSome(rhs.velocity_km_s)
               THEN Some(Vec3Sub(Unwrap(self.velocity_km_s), Unwrap(rhs.velocity_km_s)))
               ELSE None
          ELSE None,
      maneuver |-> self.maneuver,
      clock_event |-> self.clock_event,
      predicted_clock |-> self.predicted_clock,
      predicted_orbit |-> self.predicted_orbit,
      clock_us |->
          IF IsSome(self.clock_us)
          THEN IF IsSome(rhs.clock_us)
               THEN Some(F64Sub(Unwrap(self.clock_us), Unwrap(rhs.clock_us)))
               ELSE None
          ELSE None,
      clock_drift_ns |->
          IF IsSome(self.clock_drift_ns)
          THEN IF IsSome(rhs.clock_drift_ns)
               THEN Some(F64Sub(Unwrap(self.clock_drift_ns), Unwrap(rhs.clock_drift_ns)))
               ELSE None
          ELSE None ]

\* a SubAssign that forgets the clock
EntrySubAssignKeepsClock(self, rhs) ==
    [self EXCEPT !.position_km = Vec3Sub(self.position_km, rhs.position_km)]

\* impl SubAssign for SP3Entry
EntrySubAssign(self, rhs) ==
    [self EXCEPT
        !.position_km = Vec3Sub(self.position_km, rhs.position_km),
        !.velocity_km_s =
            IF IsSome(self.velocity_km_s) /\ IsSome(rhs.velocity_km_s)
            THEN Some(Vec3Sub(Unwrap(self.velocity_km_s), Unwrap(rhs.velocity_km_s)))
            ELSE self.velocity_km_s,
        !.clock_us =
            IF IsSome(self.clock_us) /\ IsSome(rhs.clock_us)
            THEN Some(F64Sub(Unwrap(self.clock_us), Unwrap(rhs.clock_us)))
            ELSE self.clock_us,
        !.clock_drift_ns =
            IF IsSome(self.clock_drift_ns) /\ IsSome(rhs.clock_drift_ns)
            THEN Some(F64Sub(Unwrap(self.clock_drift_ns), Unwrap(rhs.clock_drift_ns)))
            ELSE self.clock_drift_ns]

\* SP3Entry::from_position_km, ::from_predicted_position_km
From_position_km(position_km) ==
    SP3Entry(position_km, None, FALSE, FALSE, FALSE, FALSE, None, None)
From_predicted_position_km(position_km) ==
    SP3Entry(position_km, None, TRUE, FALSE, FALSE, FALSE, None, None)

With_velocity_km_s(e, velocity_km_s) ==
    [e EXCEPT !.velocity_km_s = Some(velocity_km_s), !.predicted_orbit = FALSE]
With_clock_offset_us(e, offset_us) ==
    [e EXCEPT !.clock_us = Some(offset_us), !.predicted_clock = FALSE]
With_predicted_clock_offset_us(e, offset_us) ==
    [e EXCEPT !.clock_us = Some(offset_us), !.predicted_clock = TRUE]
With_clock_drift_ns(e, drift_ns) == [e EXCEPT !.clock_drift_ns = Some(drift_ns)]

(***************************************************************************)
(* The map of a store: a function from a set of keys to entries.  A        *)
(* BTreeMap finds a key by Ord, so two epochs that name the same instant   *)
(* are one key.                                                            *)
(***************************************************************************)
EmptyData == [k \in {} |-> Zero]
Keys(data) == DOMAIN data
Contains(data, key) == \E k \in DOMAIN data : SP3KeyEq(k, key)
KeyOf(data, key) == CHOOSE k \in DOMAIN data : SP3KeyEq(k, key)
Get(data, key) == data[KeyOf(data, key)]
\* BTreeMap::insert keeps the key already stored and replaces the value
Insert(data, key, value) ==
    IF Contains(data, key) THEN [data EXCEPT ![KeyOf(data, key)] = value]
    ELSE [k \in DOMAIN data \cup {key} |-> IF k = key THEN value ELSE data[k]]
Retain(data, keep(_)) == [k \in {x \in DOMAIN data : keep(x)} |-> data[k]]

\* the keys in the order the BTreeMap iterates them
RECURSIVE SortKeys(_)
SortKeys(ks) ==
    IF ks = {} THEN <<>>
    ELSE LET m == CHOOSE k \in ks : \A o \in ks \ {k} : SP3KeyLess(k, o)
         IN  <<m>> \o SortKeys(ks \ {m})
KeysIter(data) == SortKeys(DOMAIN data)

(***************************************************************************)
(* Header (header/mod.rs) and the store SP3 (lib.rs)                       *)
(***************************************************************************)
VersionRank(v) == CASE v = "a" -> 1 [] v = "b" -> 2 [] v = "c" -> 3 [] OTHER -> 4

\* a count of nanoseconds (u64 week_nanos, hifitime::Duration), held as whole
\* seconds and the nanoseconds left over
Nanos(s, ns) == [s |-> s + ns \div 10^9, ns |-> ns % 10^9]
NanosLess(a, b) == a.s < b.s \/ (a.s = b.s /\ a.ns < b.ns)

\* Header::default()
DefaultHeader ==
    [ version |-> "d",
      release_epoch |-> [y |-> 1900, m |-> 1, d |-> 1, hh |-> 0, mm |-> 0, ss |-> 0, nanos |-> 0],
      data_type |-> "Position",
      coord_system |-> <<>>,
      orbit_type |-> "FIT",
      observables |-> <<>>,
      num_epochs |-> 0,
      agency |-> <<>>,
      constellation |-> "GPS",
      timescale |-> DefaultTimeScale,
      week |-> 0,
      week_nanos |-> Nanos(0, 0),
      mjd |-> 0,
      mjd_fraction |-> Zero,
      sampling_period |-> Nanos(0, 0),
      satellites |-> <<>> ]

\* SP3::default()
DefaultSP3 ==
    [header |-> DefaultHeader, comments |-> <<>>, prod_attributes |-> None, data |-> EmptyData]

SeqContains(q, x) == \E i \in 1..Len(q) : q[i] = x

(***************************************************************************)
(* processing/substract.rs                                                 *)
(***************************************************************************)
\* SP3::substract_mut: retain the keys rhs holds too, each entry -= rhs's
Substract_mut(self, rhs) ==
    [self EXCEPT !.data =
        [k \in {x \in DOMAIN self.data : Contains(rhs.data, x)} |->
            EntrySubAssign(self.data[k], Get(rhs.data, k))]]

\* SP3::substract: clone, then substract_mut
Substract(self, rhs) == Substract_mut(self, rhs)

(***************************************************************************)
(* qc/merge.rs                                                             *)
(***************************************************************************)
RECURSIVE PushMissing(_, _)
PushMissing(mine, theirs) ==
    IF theirs = <<>> THEN mine
    ELSE PushMissing(IF SeqContains(mine, Head(theirs)) THEN mine
                     ELSE Append(mine, Head(theirs)), Tail(theirs))

\* impl QcMerge for Header: the error, or "Ok"
HeaderMergeError(self, rhs) ==
    IF self.agency # rhs.agency THEN "DataProviderMismatch"
    ELSE IF self.timescale # rhs.timescale THEN "TimescaleMismatch"
    ELSE IF self.coord_system # rhs.coord_system THEN "ReferenceFrameMismatch"
    ELSE "Ok"

HeaderMerge_mut(self, rhs) ==
    [self EXCEPT
        !.constellation = IF self.constellation # rhs.constellation THEN "Mixed"
                          ELSE self.constellation,
        !.version = IF VersionRank(rhs.version) < VersionRank(self.version)
                    THEN rhs.version ELSE self.version,
        !.mjd = IF rhs.mjd < self.mjd THEN rhs.mjd ELSE self.mjd,
        !.week = IF rhs.week < self.week THEN rhs.week ELSE self.week,
        !.week_nanos = IF rhs.week < self.week THEN rhs.week_nanos ELSE self.week_nanos,
        !.satellites = PushMissing(self.satellites, rhs.satellites),
        !.sampling_period = IF NanosLess(self.sampling_period, rhs.sampling_period)
                           THEN rhs.sampling_period ELSE self.sampling_period]

\* one entry of rhs merged into the map of self
MergeEntry(data, key, entry) ==
    IF Contains(data, key)
    THEN LET l == Get(data, key)
         IN  Insert(data, key,
                 [l EXCEPT
                     !.clock_us = IF IsSome(entry.clock_us) THEN entry.clock_us ELSE @,
                     !.clock_drift_ns = IF IsSome(entry.clock_drift_ns)
                                        THEN entry.clock_drift_ns ELSE @,
                     !.velocity_km_s = IF IsSome(entry.velocity_km_s)
                                       THEN entry.velocity_km_s ELSE @])
    ELSE Insert(data, key, entry)

RECURSIVE MergeData(_, _, _)
MergeData(data, rhsData, ks) ==
    IF ks = <<>> THEN data
    ELSE MergeData(MergeEntry(data, Head(ks), rhsData[Head(ks)]), rhsData, Tail(ks))

\* impl QcMerge for SP3: on a header error self is left as it was
Merge_mut(self, rhs) ==
    IF HeaderMergeError(self.header, rhs.header) # "Ok" THEN self
    ELSE [self EXCEPT !.header = HeaderMerge_mut(self.header, rhs.header),
                      !.data = MergeData(self.data, rhs.data, KeysIter(rhs.data))]

(***************************************************************************)
(* processing/split.rs                                                     *)
(***************************************************************************)
\* a split whose returned share takes the keys at the epoch too
Split_mut_inclusive(self, epoch) ==
    << [self EXCEPT !.data = [k \in {x \in DOMAIN self.data : EpochLeq(x.epoch, epoch)}
                                 |-> self.data[k]]],
       [self EXCEPT !.data = [k \in {x \in DOMAIN self.data : EpochLeq(epoch, x.epoch)}
                                 |-> self.data[k]]] >>

\* impl Split for SP3, split_mut: <<what self keeps, what is returned>>
Split_mut(self, epoch) ==
    << [self EXCEPT !.data = [k \in {x \in DOMAIN self.data : EpochLeq(x.epoch, epoch)}
                                 |-> self.data[k]]],
       [self EXCEPT !.data = [k \in {x \in DOMAIN self.data : EpochLess(epoch, x.epoch)}
                                 |-> self.data[k]]] >>

(***************************************************************************)
(* dynamics.rs                                                             *)
(***************************************************************************)
\* (a - b) / dt for two epochs dt = now - past apart
Rate(a, b, now, past) ==
    F64DivInt(F64MulInt(F64Sub(a, b), TicksPerSecond), Tai(now) - Tai(past))

\* a walk that keeps the first state met of each satellite as its past state
RECURSIVE VelocityWalkFromFirst(_, _, _, _)
VelocityWalkFromFirst(data, ks, past, success) ==
    IF ks = <<>> THEN [data |-> data, success |-> success]
    ELSE LET k == Head(ks)
             v == data[k]
             fill == IsNone(v.velocity_km_s) /\ k.sv \in DOMAIN past
             p == past[k.sv]
             nv == IF fill
                   THEN [v EXCEPT !.velocity_km_s = Some(
                            << Rate(v.position_km[1], p[2][1], k.epoch, p[1]),
                               Rate(v.position_km[2], p[2][2], k.epoch, p[1]),
                               Rate(v.position_km[3], p[2][3], k.epoch, p[1]) >>)]
                   ELSE v
         IN  VelocityWalkFromFirst([data EXCEPT ![k] = nv], Tail(ks),
                 [s \in DOMAIN past \cup {k.sv} |->
                     IF s \in DOMAIN past THEN past[s] ELSE <<k.epoch, nv.position_km>>],
                 success \/ fill)

\* the walk of resolve_velocities_mut over the keys ks; past maps each SV met
\* so far to its last (epoch, position)
RECURSIVE VelocityWalk(_, _, _, _)
VelocityWalk(data, ks, past, success) ==
    IF ks = <<>> THEN [data |-> data, success |-> success]
    ELSE LET k == Head(ks)
             v == data[k]
             fill == IsNone(v.velocity_km_s) /\ k.sv \in DOMAIN past
             p == past[k.sv]
             nv == IF fill
                   THEN [v EXCEPT !.velocity_km_s = Some(
                            << Rate(v.position_km[1], p[2][1], k.epoch, p[1]),
                               Rate(v.position_km[2], p[2][2], k.epoch, p[1]),
                               Rate(v.position_km[3], p[2][3], k.epoch, p[1]) >>)]
                   ELSE v
         IN  VelocityWalk([data EXCEPT ![k] = nv], Tail(ks),
                 [s \in DOMAIN past \cup {k.sv} |->
                     IF s = k.sv THEN <<k.epoch, nv.position_km>> ELSE past[s]],
                 success \/ fill)

\* resolve_velocities_mut writing the data type on failure too
Resolve_velocities_mut_sets_type(self) ==
    LET w == VelocityWalk(self.data, KeysIter(self.data), [s \in {} |-> <<>>], FALSE)
    IN  [self EXCEPT !.data = w.data,
                     !.header.data_type = IF w.success THEN "Velocity" ELSE "Position"]

Resolve_velocities_mut(self) ==
    LET w == VelocityWalk(self.data, KeysIter(self.data), [s \in {} |-> <<>>], FALSE)
    IN  [self EXCEPT !.data = w.data,
                     !.header.data_type = IF w.success THEN "Velocity" ELSE @]

\* the walk of resolve_clock_drift_mut; past maps an SV to its last (epoch, clock)
RECURSIVE ClockDriftWalk(_, _, _)
ClockDriftWalk(data, ks, past) ==
    IF ks = <<>> THEN data
    ELSE LET k == Head(ks)
             v == data[k]
             has == IsSome(v.clock_us)
             fill == has /\ IsNone(v.clock_drift_ns) /\ k.sv \in DOMAIN past
             nv == IF fill
                   THEN [v EXCEPT !.clock_drift_ns = Some(F64MulInt(
                            Rate(Unwrap(v.clock_us), past[k.sv][2], k.epoch, past[k.sv][1]),
                            1000))]
                   ELSE v
         IN  ClockDriftWalk([data EXCEPT ![k] = nv], Tail(ks),
                 IF has
                 THEN [s \in DOMAIN past \cup {k.sv} |->
                          IF s = k.sv THEN <<k.epoch, Unwrap(v.clock_us)>> ELSE past[s]]
                 ELSE past)

Resolve_clock_drift_mut(self) ==
    [self EXCEPT !.data = ClockDriftWalk(self.data, KeysIter(self.data), [s \in {} |-> <<>>])]

\* the walk of resolve_dynamics_mut; past maps an SV to its last (epoch, entry)
RECURSIVE DynamicsWalk(_, _, _, _)
DynamicsWalk(data, ks, past, success) ==
    IF ks = <<>> THEN [data |-> data, success |-> success]
    ELSE LET k == Head(ks)
             v == data[k]
             known == k.sv \in DOMAIN past
             past_t == past[k.sv][1]
             past_state == past[k.sv][2]
             fillV == known /\ IsNone(v.velocity_km_s)
             v1 == IF fillV
                   THEN [v EXCEPT !.velocity_km_s = Some(
                            << Rate(v.position_km[1], past_state.position_km[1], k.epoch, past_t),
                               Rate(v.position_km[2], past_state.position_km[2], k.epoch, past_t),
                               Rate(v.position_km[3], past_state.position_km[3], k.epoch, past_t) >>)]
                   ELSE v
             fillD == known /\ IsNone(v.clock_drift_ns) /\ IsSome(past_state.clock_us)
                      /\ IsSome(v.clock_us)
             v2 == IF fillD
                   THEN [v1 EXCEPT !.clock_drift_ns = Some(F64MulInt(
                            Rate(Unwrap(v.clock_us), Unwrap(past_state.clock_us), k.epoch, past_t),
                            1000))]
                   ELSE v1
         IN  DynamicsWalk([data EXCEPT ![k] = v2], Tail(ks),
                 [s \in DOMAIN past \cup {k.sv} |->
                     IF s = k.sv THEN <<k.epoch, v2>> ELSE past[s]],
                 success \/ fillV \/ fillD)

Resolve_dynamics_mut(self) ==
    LET w == DynamicsWalk(self.data, KeysIter(self.data), [s \in {} |-> <<>>], FALSE)
    IN  [self EXCEPT !.data = w.data,
                     !.header.data_type = IF w.success THEN "Velocity" ELSE @]

(***************************************************************************)
(* lib.rs: iterators                                                       *)
(***************************************************************************)
\* itertools unique(): each item once, at its first occurrence
RECURSIVE Unique(_, _)
Unique(q, acc) ==
    IF q = <<>> THEN acc
    ELSE Unique(Tail(q), IF \E i \in 1..Len(acc) : EpochEq(acc[i], Head(q)) THEN acc
                         ELSE Append(acc, Head(q)))

\* SP3::epochs_iter: self.data.keys().map(|k| k.epoch).unique()
Epochs_iter(self) ==
    LET ks == KeysIter(self.data)
    IN  Unique([i \in 1..Len(ks) |-> ks[i].epoch], <<>>)

(***************************************************************************)
(* Results of the parsers: Ok(v), Err(e) for a returned error, Panic for   *)
(* a slice past the end of the line or an unwrap that fails.               *)
(***************************************************************************)
Ok(v) == [ok |-> TRUE, err |-> "", v |-> v]
Err(e) == [ok |-> FALSE, err |-> e, v |-> <<>>]
Panic == Err("panic")

\* {:w} of an unsigned integer: right-aligned in w columns
PadNum(n, w) == PadLeft(Digits(n), w)

\* u8 / u32 / u64 ::from_str of a trimmed field: digits after an optional '+',
\* no larger than max
ParseUIntMax(s, max) ==
    LET body == IF Len(s) > 0 /\ s[1] = "+" THEN Tail(s) ELSE s
        p    == ParseUInt(body)
    IN  IF p.ok /\ p.v <= max THEN p ELSE [ok |-> FALSE, v |-> 0]

U8Max == 2^8 - 1
\* u32 and u64 fields are read up to the widest integer the model holds
U32Max == (2^30 - 1) * 2 + 1

(***************************************************************************)
(* gnss::SV, gnss::Constellation and hifitime::TimeScale as text           *)
(***************************************************************************)
LetterConstellation(c) ==
    CASE c = "G" -> "GPS" [] c = "E" -> "Galileo" [] c = "M" -> "Mixed" [] OTHER -> "?"

\* Constellation::from_str on the one-letter code
Constellation_from_str(s) ==
    IF Len(s) = 1 /\ LetterConstellation(s[1]) # "?" THEN Ok(LetterConstellation(s[1]))
    ELSE Err("ConstellationParsing")

\* "{}" of an SV: the constellation letter and the PRN on two digits
SvText(sv) == <<ConstellationLetter(sv.constellation)>> \o ZeroPad(sv.prn, 2)

\* SV::from_str
SV_from_str(s) ==
    IF Len(s) < 2 THEN Err("SV")
    ELSE LET c == LetterConstellation(s[1])
             p == ParseUIntMax(Trim(Tail(s)), U8Max)
         IN  IF c \in {"?", "Mixed"} \/ ~p.ok THEN Err("SV")
             ELSE Ok([constellation |-> c, prn |-> p.v])

\* the time scale names of the %c line, as Header::format writes them
TimescaleText(ts) ==
    CASE ts = "GPST" -> <<"G", "P", "S">>
      [] ts = "GST" -> <<"G", "A", "L">>
      [] ts = "QZSST" -> <<"Q", "Z", "S">>
      [] ts = "UTC" -> <<"U", "T", "C">>
      [] OTHER -> <<"T", "A", "I">>

\* TimeScale::from_str
TimeScale_from_str(s) ==
    IF s = <<"G", "P", "S">> THEN Ok("GPST")
    ELSE IF s = <<"G", "A", "L">> THEN Ok("GST")
    ELSE IF s = <<"U", "T", "C">> THEN Ok("UTC")
    ELSE IF s = <<"T", "A", "I">> THEN Ok("TAI")
    ELSE Err("HifitimeParsingError")

(***************************************************************************)
(* Calendar: the model holds dates of the years 1900 to 1903, none of      *)
(* which is a leap year; an epoch's ticks count from 1900-01-01T00:00:00.  *)
(***************************************************************************)
DaysBefore == <<0, 31, 59, 90, 120, 151, 181, 212, 243, 273, 304, 334>>
DaysIn == <<31, 28, 31, 30, 31, 30, 31, 31, 30, 31, 30, 31>>
SecondsPerDay == 24 * 3600

ValidGregorian(y, m, d, hh, mm, ss) ==
    /\ y \in 1900..1903 /\ m \in 1..12 /\ d >= 1 /\ d <= DaysIn[m]
    /\ hh < 24 /\ mm < 60 /\ ss < 60

\* seconds from 1900-01-01T00:00:00 to the given date and time
GregorianSeconds(y, m, d, hh, mm, ss) ==
    ((y - 1900) * 365 + DaysBefore[m] + (d - 1)) * SecondsPerDay + hh * 3600 + mm * 60 + ss

\* the date and time of an epoch in its own time scale
Gregorian(e) ==
    LET s   == e.t \div TicksPerSecond
        day == s \div SecondsPerDay
        y   == 1900 + day \div 365
        doy == day % 365
        m   == CHOOSE i \in 1..12 : DaysBefore[i] <= doy /\ doy < DaysBefore[i] + DaysIn[i]
        sod == s % SecondsPerDay
    IN  [y |-> y, m |-> m, d |-> doy - DaysBefore[m] + 1,
         hh |-> sod \div 3600, mm |-> (sod % 3600) \div 60, ss |-> sod % 60,
         nanos |-> (e.t % TicksPerSecond) * (10^9 \div TicksPerSecond)]

(***************************************************************************)
(* header/mod.rs, header/version.rs: the one-letter fields of H1           *)
(***************************************************************************)
Version_from_str(s) ==
    IF s \in {<<"a">>, <<"b">>, <<"c">>, <<"d">>} THEN Ok(s[1]) ELSE Err("NonSupportedRevision")

DataTypeText(t) == IF t = "Position" THEN <<"P">> ELSE <<"V">>
DataType_from_str(s) ==
    IF s = <<"P">> THEN Ok("Position")
    ELSE IF s = <<"V">> THEN Ok("Velocity")
    ELSE Err("UnknownDataType")

OrbitTypes == {"FIT", "EXT", "BCT", "BHN", "HLM"}
OrbitTypeText(o) ==
    CASE o = "FIT" -> <<"F", "I", "T">>
      [] o = "EXT" -> <<"E", "X", "T">>
      [] o = "BCT" -> <<"B", "C", "T">>
      [] o = "BHN" -> <<"B", "H", "N">>
      [] OTHER -> <<"H", "L", "M">>
OrbitType_from_str(s) ==
    IF \E o \in OrbitTypes : OrbitTypeText(o) = s
    THEN Ok(CHOOSE o \in OrbitTypes : OrbitTypeText(o) = s)
    ELSE Err("UnknownOrbitType")

(***************************************************************************)
(* header/line1.rs                                                         *)
(***************************************************************************)
is_header_line1(content) == StartsWith(content, <<"#">>)

\* impl FromStr for Line1
Line1_from_str(line) ==
    IF Len(line) < 59 THEN Err("MalformedH1")
    ELSE
    LET y     == ParseUIntMax(Trim(Slice(line, 3, 7)), U32Max)
        m     == ParseUIntMax(Trim(Slice(line, 8, 11)), U8Max)
        d     == ParseUIntMax(Trim(Slice(line, 11, 13)), U8Max)
        hh    == ParseUIntMax(Trim(Slice(line, 14, 16)), U8Max)
        mm    == ParseUIntMax(Trim(Slice(line, 17, 19)), U8Max)
        ss    == ParseUIntMax(Trim(Slice(line, 20, 22)), U8Max)
        nanos == ParseUIntMax(Trim(Slice(line, 23, 31)), U32Max)
        num_epochs == ParseUIntMax(Trim(Slice(line, 32, 40)), U32Max)
        version    == Version_from_str(Slice(line, 1, 2))
        data_type  == DataType_from_str(Slice(line, 2, 3))
        orbit_type == OrbitType_from_str(Trim(Slice(line, 51, 55)))
    IN  IF ~(y.ok /\ m.ok /\ d.ok /\ hh.ok /\ mm.ok /\ ss.ok /\ nanos.ok) THEN Err("Epoch")
        ELSE IF ~ValidGregorian(y.v, m.v, d.v, hh.v, mm.v, ss.v) THEN Panic
        ELSE IF ~num_epochs.ok THEN Err("Epoch")
        ELSE IF ~version.ok THEN version
        ELSE IF ~data_type.ok THEN data_type
        ELSE IF ~orbit_type.ok THEN orbit_type
        ELSE Ok([ epoch |-> [y |-> y.v, m |-> m.v, d |-> d.v, hh |-> hh.v, mm |-> mm.v,
                             ss |-> ss.v, nanos |-> nanos.v * 10],
                  num_epochs |-> num_epochs.v,
                  fit_type |-> Trim(Slice(line, 40, 45)),
                  version |-> version.v,
                  data_type |-> data_type.v,
                  coord_system |-> Trim(Slice(line, 45, 51)),
                  orbit_type |-> orbit_type.v,
                  agency |-> Trim(SliceFrom(line, 55)) ])

\* Line1::format
Line1_format(l1) ==
    <<"#", l1.version>> \o DataTypeText(l1.data_type)
    \o ZeroPad(l1.epoch.y, 4) \o <<" ">> \o PadNum(l1.epoch.m, 2) \o <<" ">>
    \o PadNum(l1.epoch.d, 2) \o <<" ">> \o PadNum(l1.epoch.hh, 2) \o <<" ">>
    \o PadNum(l1.epoch.mm, 2) \o <<" ">> \o PadNum(l1.epoch.ss, 2) \o <<".">>
    \o ZeroPad(l1.epoch.nanos \div 10, 8) \o <<" ">> \o PadNum(l1.num_epochs, 7) \o <<" ">>
    \o l1.fit_type \o <<" ">> \o l1.coord_system \o <<" ">>
    \o OrbitTypeText(l1.orbit_type) \o <<" ", " ">> \o l1.agency

(***************************************************************************)
(* header/line2.rs                                                         *)
(***************************************************************************)
is_header_line2(content) == StartsWith(content, <<"#", "#">>)

\* impl FromStr for Line2
Line2_from_str(line) ==
    IF Len(line) # 60 THEN Err("MalformedH2")
    ELSE
    LET week         == ParseUIntMax(Trim(Slice(line, 2, 7)), U32Max)
        week_seconds == ParseUIntMax(Trim(Slice(line, 7, 14)), U32Max)
        week_nanos   == ParseUIntMax(Trim(Slice(line, 15, 23)), U32Max)
        dt_s         == ParseUIntMax(Trim(Slice(line, 24, 29)), U32Max)
        dt_nanos     == ParseUIntMax(Trim(Slice(line, 30, 38)), U32Max)
        mjd          == ParseUIntMax(Trim(Slice(line, 38, 44)), U32Max)
        mjd_fraction == ParseF64(Trim(SliceFrom(line, 44)))
    IN  IF ~week.ok THEN Err("WeekCounter")
        ELSE IF ~week_seconds.ok \/ ~week_nanos.ok THEN Err("WeekSeconds")
        ELSE IF ~dt_s.ok \/ ~dt_nanos.ok THEN Err("SamplingPeriod")
        ELSE IF ~mjd.ok \/ ~mjd_fraction.ok THEN Err("Mjd")
        ELSE Ok([ week |-> week.v,
                  week_nanos |-> Nanos(week_seconds.v, week_nanos.v * 10),
                  mjd_fract |-> <<mjd.v, mjd_fraction.v>>,
                  sampling_period |-> Nanos(dt_s.v, dt_nanos.v * 10) ])

\* Line2::format
Line2_format(l2) ==
    <<"#", "#">> \o PadNum(l2.week, 5) \o <<" ">>
    \o PadNum(l2.week_nanos.s, 6) \o <<".">> \o ZeroPad(l2.week_nanos.ns \div 10, 8) \o <<" ">>
    \o PadNum(l2.sampling_period.s, 5) \o <<".">>
    \o ZeroPad(l2.sampling_period.ns \div 10, 8) \o <<" ">>
    \o ZeroPad(l2.mjd_fract[1], 5) \o <<" ">> \o Fractional_mjd(l2.mjd_fract[2])

(***************************************************************************)
(* header/mod.rs: Header::format                                           *)
(***************************************************************************)
\* n times the letter c
RECURSIVE CWord(_)
CWord(n) == IF n <= 0 THEN <<>> ELSE <<"c">> \o CWord(n - 1)

\* words of the letter c of the given lengths, one blank between two words
RECURSIVE CWords(_)
CWords(ws) ==
    IF Len(ws) = 1 THEN CWord(ws[1])
    ELSE CWord(ws[1]) \o <<" ">> \o CWords(Tail(ws))

\* the four lines Header::format writes
Header_format(self) ==
    << Line1_format([ version |-> self.version, data_type |-> self.data_type,
                      epoch |-> self.release_epoch, num_epochs |-> self.num_epochs,
                      orbit_type |-> self.orbit_type, agency |-> self.agency,
                      fit_type |-> self.observables, coord_system |-> self.coord_system ]),
       Line2_format([ week |-> self.week, week_nanos |-> self.week_nanos,
                      mjd_fract |-> <<self.mjd, self.mjd_fraction>>,
                      sampling_period |-> self.sampling_period ]),
       <<"%", "c", " ", ConstellationLetter(self.constellation), " ", " ", "c", "c", " ">>
           \o TimescaleText(self.timescale) \o <<" ">>
           \o CWords(<<3, 4, 4, 4, 4, 5, 5, 5, 5>>),
       <<"%", "c", " ">> \o CWords(<<2, 2, 3, 3, 4, 4, 4, 4, 5, 5, 5, 5>>) >>

(***************************************************************************)
(* position.rs                                                             *)
(***************************************************************************)
position_entry(content) == StartsWith(content, <<"P">>)

\* the sentinel test of the clock column, as the parsers write it
ClockSentinel == <<"9", "9", "9", "9", "9", "9", ".">>

\* the SV of a P-line or V-line
LineSV(line, revision) ==
    IF revision = "a"
    THEN LET prn == ParseUIntMax(Trim(Slice(line, 2, 4)), U8Max)
         IN  IF prn.ok THEN Ok([constellation |-> "GPS", prn |-> prn.v]) ELSE Err("SV")
    ELSE SV_from_str(Trim(Slice(line, 1, 4)))

\* PositionEntry::parse
PositionEntry_parse(line, revision) ==
    LET line_len == Len(line)
        sv == LineSV(line, revision)
        x  == ParseF64(Trim(Slice(line, 4, 18)))
        y  == ParseF64(Trim(Slice(line, 18, 32)))
        z  == ParseF64(Trim(Slice(line, 32, 46)))
        has_clock == line_len > 51 /\ Trim(Slice(line, 45, 52)) # ClockSentinel
        clk_data  == ParseF64(Trim(Slice(line, 46, 60)))
    IN  IF line_len < 4 THEN Panic
        ELSE IF ~sv.ok THEN Err("SV")
        ELSE IF line_len < 18 THEN Panic
        ELSE IF ~x.ok THEN Err("Coordinates")
        ELSE IF line_len < 32 THEN Panic
        ELSE IF ~y.ok THEN Err("Coordinates")
        ELSE IF line_len < 46 THEN Panic
        ELSE IF ~z.ok THEN Err("Coordinates")
        ELSE IF has_clock /\ line_len < 60 THEN Panic
        ELSE IF has_clock /\ ~clk_data.ok THEN Err("Clock")
        ELSE Ok([ sv |-> sv.v,
                  clock_us |-> IF has_clock THEN Some(clk_data.v) ELSE None,
                  clock_event |-> line_len > 74 /\ line[75] = "E",
                  clock_prediction |-> line_len > 75 /\ line[76] = "P",
                  orbit_prediction |-> line_len > 79 /\ line[80] = "P",
                  maneuver |-> line_len > 78 /\ line[79] = "M",
                  x_km |-> x.v, y_km |-> y.v, z_km |-> z.v ])

\* PositionEntry::from_str, as the reader calls it
PositionEntry_from_str(line) == PositionEntry_parse(line, "d")

(***************************************************************************)
(* velocity.rs                                                             *)
(***************************************************************************)
velocity_entry(content) == StartsWith(content, <<"V">>)

\* VelocityEntry::parse
VelocityEntry_parse(line, revision) ==
    LET sv == LineSV(line, revision)
        x  == ParseF64(Trim(Slice(line, 4, 18)))
        y  == ParseF64(Trim(Slice(line, 18, 32)))
        z  == ParseF64(Trim(Slice(line, 32, 46)))
        has_clock == Trim(Slice(line, 45, 52)) # ClockSentinel
        clk_data  == ParseF64(Trim(Slice(line, 46, 60)))
    IN  IF Len(line) < 4 THEN Panic
        ELSE IF ~sv.ok THEN Err("SV")
        ELSE IF Len(line) < 18 THEN Panic
        ELSE IF ~x.ok THEN Err("Coordinates")
        ELSE IF Len(line) < 32 THEN Panic
        ELSE IF ~y.ok THEN Err("Coordinates")
        ELSE IF Len(line) < 46 THEN Panic
        ELSE IF ~z.ok THEN Err("Coordinates")
        ELSE IF Len(line) < 52 THEN Panic
        ELSE IF has_clock /\ Len(line) < 60 THEN Panic
        ELSE IF has_clock /\ ~clk_data.ok THEN Err("Clock")
        ELSE Ok([ sv |-> sv.v,
                  velocity |-> << F64Scale10(x.v, -4), F64Scale10(y.v, -4),
                                  F64Scale10(z.v, -4) >>,
                  clock |-> IF has_clock THEN Some(clk_data.v) ELSE None ])

\* VelocityEntry::from_str, as the reader calls it
VelocityEntry_from_str(line) == VelocityEntry_parse(line, "d")

(***************************************************************************)
(* entry.rs: SP3Entry::format, the one or two lines of an entry            *)
(***************************************************************************)
SP3Entry_format(self, sv) ==
    LET p == TrimEnd(
               <<"P">> \o SvText(sv)
               \o Coordinates(self.position_km[1])
               \o Coordinates(self.position_km[2])
               \o Coordinates(self.position_km[3])
               \o (IF IsSome(self.clock_us) THEN Coordinates(Unwrap(self.clock_us))
                   ELSE Spaces(14))
               \o Spaces(14)
               \o (IF self.clock_event THEN <<"E">> ELSE <<" ">>)
               \o (IF self.predicted_clock THEN <<"P", " ", " ">> ELSE <<" ", " ", " ">>)
               \o (IF self.maneuver THEN <<"M">> ELSE <<" ">>)
               \o (IF self.predicted_orbit THEN <<"P">> ELSE <<>>))
        vel == Unwrap(self.velocity_km_s)
        v == <<"V">> \o SvText(sv)
             \o Coordinates(F64Scale10(vel[1], 4))
             \o Coordinates(F64Scale10(vel[2], 4))
             \o Coordinates(F64Scale10(vel[3], 4))
             \o (IF IsSome(self.clock_drift_ns)
                 THEN Coordinates(F64Scale10(Unwrap(self.clock_drift_ns), -2))
                 ELSE <<>>)
    IN  IF IsSome(self.velocity_km_s) THEN <<p, v>> ELSE <<p>>

(***************************************************************************)
(* parsing.rs: the line predicates and parse_epoch                         *)
(***************************************************************************)
file_descriptor(content) == StartsWith(content, <<"%", "c">>)
sp3_comment(content) == StartsWith(content, <<"/", "*">>)
end_of_file(content) == content = <<"E", "O", "F">>
new_epoch(content) == StartsWith(content, <<"*", " ", " ">>)

\* Epoch::from_str of "y-m-dTh:m:s timescale"
Epoch_from_gregorian(y, m, d, hh, mm, ss, timescale) ==
    IF ValidGregorian(y, m, d, hh, mm, ss)
    THEN Ok(Epoch(timescale, GregorianSeconds(y, m, d, hh, mm, ss) * TicksPerSecond))
    ELSE Err("Epoch")

parse_epoch(content, timescale) ==
    LET n  == Len(content)
        y  == ParseUIntMax(Trim(Slice(content, 0, 4)), U32Max)
        m  == ParseUIntMax(Trim(Slice(content, 4, 7)), U32Max)
        d  == ParseUIntMax(Trim(Slice(content, 7, 10)), U32Max)
        hh == ParseUIntMax(Trim(Slice(content, 10, 13)), U32Max)
        mm == ParseUIntMax(Trim(Slice(content, 13, 16)), U32Max)
        ss == ParseUIntMax(Trim(Slice(content, 16, 19)), U32Max)
        ss_fract == ParseF64(Trim(Slice(content, 20, 27)))
    IN  IF n < 4 THEN Panic
        ELSE IF ~y.ok THEN Err("EpochParsing")
        ELSE IF n < 7 THEN Panic
        ELSE IF ~m.ok THEN Err("EpochParsing")
        ELSE IF n < 10 THEN Panic
        ELSE IF ~d.ok THEN Err("EpochParsing")
        ELSE IF n < 13 THEN Panic
        ELSE IF ~hh.ok THEN Err("EpochParsing")
        ELSE IF n < 16 THEN Panic
        ELSE IF ~mm.ok THEN Err("EpochParsing")
        ELSE IF n < 19 THEN Panic
        ELSE IF ~ss.ok THEN Err("EpochParsing")
        ELSE IF n < 27 THEN Panic
        ELSE IF ~ss_fract.ok THEN Err("EpochParsing")
        ELSE Epoch_from_gregorian(y.v, m.v, d.v, hh.v, mm.v, ss.v, timescale)

(***************************************************************************)
(* formatting.rs: the epoch marker, "*  " and the hifitime format          *)
(* "%Y %m %d %H %M %S.%f"                                                  *)
(***************************************************************************)
EpochMarker(epoch) ==
    LET g == Gregorian(epoch)
    IN  <<"*", " ", " ">> \o ZeroPad(g.y, 4) \o <<" ">> \o ZeroPad(g.m, 2) \o <<" ">>
        \o ZeroPad(g.d, 2) \o <<" ">> \o ZeroPad(g.hh, 2) \o <<" ">> \o ZeroPad(g.mm, 2)
        \o <<" ">> \o ZeroPad(g.ss, 2) \o <<".">> \o ZeroPad(g.nanos, 9)

(***************************************************************************)
(* parsing.rs: SP3::from_reader.  The reader is the record of the locals   *)
(* of from_reader; ReadLine is one turn of its loop.                       *)
(***************************************************************************)
NewReader ==
    [ status |-> "reading", err |-> "", pc_count |-> 0, header |-> DefaultHeader,
      timescale |-> DefaultTimeScale, vehicles |-> <<>>, comments |-> <<>>,
      data |-> EmptyData, epoch |-> DefaultEpoch ]

\* the ? operator on an error, and a panic
Fail(r, e) == [r EXCEPT !.status = IF e = "panic" THEN "panic" ELSE "error", !.err = e]

PushVehicle(vehicles, sv) == IF SeqContains(vehicles, sv) THEN vehicles ELSE Append(vehicles, sv)

OnHeaderLine1(r, line) ==
    IF ~(is_header_line1(line) /\ ~is_header_line2(line)) THEN r
    ELSE LET l1 == Line1_from_str(line)
         IN  IF ~l1.ok THEN Fail(r, l1.err)
             ELSE [r EXCEPT !.header =
                     [@ EXCEPT !.version = l1.v.version,
                               !.data_type = l1.v.data_type,
                               !.coord_system = l1.v.coord_system,
                               !.orbit_type = l1.v.orbit_type,
                               !.agency = l1.v.agency,
                               !.num_epochs = l1.v.num_epochs,
                               !.observables = l1.v.fit_type,
                               !.release_epoch = l1.v.epoch]]

OnHeaderLine2(r, line) ==
    IF r.status # "reading" \/ ~is_header_line2(line) THEN r
    ELSE LET l2 == Line2_from_str(line)
         IN  IF ~l2.ok THEN Fail(r, l2.err)
             ELSE [r EXCEPT !.header =
                     [@ EXCEPT !.week = l2.v.week,
                               !.week_nanos = l2.v.week_nanos,
                               !.sampling_period = l2.v.sampling_period,
                               !.mjd = l2.v.mjd_fract[1],
                               !.mjd_fraction = l2.v.mjd_fract[2]]]

OnFileDescriptor(r, line) ==
    IF r.status # "reading" \/ ~file_descriptor(line) THEN r
    ELSE IF Len(line) < 60 THEN Fail(r, "MalformedDescriptor")
    ELSE IF r.pc_count # 0 THEN [r EXCEPT !.pc_count = @ + 1]
    ELSE LET c  == Constellation_from_str(Trim(Slice(line, 3, 5)))
             ts == TimeScale_from_str(Trim(Slice(line, 9, 12)))
         IN  IF ~c.ok THEN Fail(r, c.err)
             ELSE IF ~ts.ok THEN Fail(r, ts.err)
             ELSE [r EXCEPT !.header = [@ EXCEPT !.constellation = c.v, !.timescale = ts.v],
                            !.timescale = ts.v,
                            !.pc_count = @ + 1]

OnNewEpoch(r, line) ==
    IF r.status # "reading" \/ ~new_epoch(line) THEN r
    ELSE LET e == parse_epoch(SliceFrom(line, 3), r.timescale)
         IN  IF ~e.ok THEN Fail(r, e.err) ELSE [r EXCEPT !.epoch = e.v]

\* the entry a P-line leaves under its key
PositionValue(data, key, entry) ==
    LET pos  == <<entry.x_km, entry.y_km, entry.z_km>>
        base == IF entry.orbit_prediction THEN From_predicted_position_km(pos)
                ELSE From_position_km(pos)
    IN  IF Contains(data, key)
        THEN [Get(data, key) EXCEPT !.position_km = pos,
                                    !.maneuver = entry.maneuver,
                                    !.predicted_orbit = entry.orbit_prediction]
        ELSE IF IsSome(entry.clock_us)
        THEN [(IF entry.clock_prediction
               THEN With_predicted_clock_offset_us(base, Unwrap(entry.clock_us))
               ELSE With_clock_offset_us(base, Unwrap(entry.clock_us)))
              EXCEPT !.maneuver = entry.maneuver, !.clock_event = entry.clock_event]
        ELSE [base EXCEPT !.maneuver = entry.maneuver, !.clock_event = entry.clock_event]

\* a validity check that lets every position through
PositionIsValidAlways(entry) == TRUE

\* a validity check that lets a line through for its clock alone
PositionIsValidWithClock(entry) ==
    \/ entry.x_km # Zero /\ entry.y_km # Zero /\ entry.z_km # Zero
    \/ IsSome(entry.clock_us)

\* "verify entry validity" of the P-line branch
PositionIsValid(entry) == entry.x_km # Zero /\ entry.y_km # Zero /\ entry.z_km # Zero

\* a P-line shorter than 60 is left alone (continue: no later branch takes a
\* line that starts with P)
OnPositionEntry(r, line) ==
    IF r.status # "reading" \/ ~position_entry(line) THEN r
    ELSE IF Len(line) < 60 THEN r
    ELSE LET p == PositionEntry_from_str(line)
             key == SP3Key(p.v.sv, r.epoch)
         IN  IF ~p.ok THEN Fail(r, p.err)
             ELSE [r EXCEPT !.vehicles = PushVehicle(@, p.v.sv),
                            !.data = IF PositionIsValid(p.v)
                                     THEN Insert(@, key, PositionValue(@, key, p.v))
                                     ELSE @]

\* the entry a V-line leaves under its key
VelocityValue(data, key, vel_dm_s, clk_sub_ns) ==
    LET vel_km_s == << F64Scale10(vel_dm_s[2], -4), F64Scale10(vel_dm_s[2], -4),
                       F64Scale10(vel_dm_s[3], -4) >>
        e == With_velocity_km_s(IF Contains(data, key) THEN Get(data, key)
                                ELSE From_position_km(ZeroVec), vel_km_s)
    IN  IF IsSome(clk_sub_ns) THEN With_clock_drift_ns(e, F64Scale10(Unwrap(clk_sub_ns), -1))
        ELSE e

OnVelocityEntry(r, line) ==
    IF r.status # "reading" \/ ~velocity_entry(line) THEN r
    ELSE IF Len(line) < 60 THEN r
    ELSE LET v == VelocityEntry_from_str(line)
             key == SP3Key(v.v.sv, r.epoch)
             vel == v.v.velocity
         IN  IF ~v.ok THEN Fail(r, v.err)
             ELSE [r EXCEPT !.vehicles = PushVehicle(@, v.v.sv),
                            !.data = IF vel[1] # Zero /\ vel[2] # Zero /\ vel[3] # Zero
                                     THEN Insert(@, key, VelocityValue(@, key, vel, v.v.clock))
                                     ELSE @]

\* one turn of the loop over reader.lines()
ReadLine(r, raw) ==
    LET line == Trim(raw)
    IN  IF sp3_comment(line)
        THEN [r EXCEPT !.comments = IF Len(line) > 4 THEN Append(@, SliceFrom(line, 3)) ELSE @]
        ELSE IF end_of_file(line) THEN [r EXCEPT !.status = "eof"]
        ELSE OnVelocityEntry(OnPositionEntry(OnNewEpoch(OnFileDescriptor(
                 OnHeaderLine2(OnHeaderLine1(r, line), line), line), line), line), line)

\* what from_reader returns once the loop is left
ReaderResult(r) ==
    IF r.status \in {"error", "panic"} THEN Err(r.err)
    ELSE Ok([header |-> r.header, data |-> r.data, comments |-> r.comments,
             prod_attributes |-> None])

RECURSIVE ReadLines(_, _)
ReadLines(r, lines) ==
    IF lines = <<>> \/ r.status # "reading" THEN r
    ELSE ReadLines(ReadLine(r, Head(lines)), Tail(lines))

\* SP3::from_reader over the lines of a file
From_reader(lines) == ReaderResult(ReadLines(NewReader, lines))

(***************************************************************************)
(* formatting.rs: SP3::format, the lines written                           *)
(***************************************************************************)
\* the epochs left in the order the keys give them
SortEpochsAsIterated(es) == es

\* sorted() on epochs
RECURSIVE SortEpochs(_)
SortEpochs(es) ==
    IF es = <<>> THEN <<>>
    ELSE LET i == CHOOSE j \in 1..Len(es) :
                     /\ \A l \in 1..Len(es) : EpochLeq(es[j], es[l])
                     /\ \A l \in 1..(j - 1) : EpochLess(es[j], es[l])
         IN  <<es[i]>> \o SortEpochs(SubSeq(es, 1, i - 1) \o SubSeq(es, i + 1, Len(es)))

RECURSIVE FormatEntries(_, _)
FormatEntries(data, ks) ==
    IF ks = <<>> THEN <<>>
    ELSE SP3Entry_format(data[Head(ks)], Head(ks).sv) \o FormatEntries(data, Tail(ks))

RECURSIVE FormatEpochs(_, _)
FormatEpochs(data, es) ==
    IF es = <<>> THEN <<>>
    ELSE LET AtEpoch(k) == EpochEq(k.epoch, Head(es))
         IN  <<EpochMarker(Head(es))>>
             \o FormatEntries(data, SelectSeq(KeysIter(data), AtEpoch))
             \o FormatEpochs(data, Tail(es))

SP3_format(self) ==
    Header_format(self.header)
    \o [i \in 1..Len(self.comments) |-> <<"/", "*", " ">> \o self.comments[i]]
    \o FormatEpochs(self.data, SortEpochs(Epochs_iter(self)))
    \o << <<"E", "O", "F">> >>

(***************************************************************************)
(* The stores the operations start from: at most MaxEntries entries each,  *)
(* over NumSV satellites and NumEpochs epochs, as a reader or a direct     *)
(* construction leaves them.                                               *)
(***************************************************************************)
MaxEntries == 2     \* entries of the initial store operated on
MaxOtherEntries == 1 \* entries of the initial store used as right-hand side
MaxOps == 2         \* operations applied in one behaviour

Txt_IGS == <<"I", "G", "S">>
Txt_IGS14 == <<"I", "G", "S", "1", "4">>
Txt_Obs == <<"_", "_", "u", "+", "U">>

BaseHeader ==
    [DefaultHeader EXCEPT
        !.version = "c", !.coord_system = Txt_IGS14, !.observables = Txt_Obs,
        !.agency = Txt_IGS, !.timescale = "GPST", !.week = 1, !.mjd = 15020,
        !.sampling_period = Nanos(1, 0), !.num_epochs = NumEpochs]

InitEpochs == {Epoch("GPST", i * TicksPerSecond) : i \in 0..(NumEpochs - 1)}
InitKeys == {SP3Key(sv, t) : sv \in SVs, t \in InitEpochs}

PosA == <<Micro(1500000), Micro(-2250000), Micro(3000001)>>
PosB == <<Micro(500000), Micro(1000000), Micro(-1000000)>>
VelA == <<Micro(100), Micro(-200), Micro(300)>>
VelB == <<Micro(50), Micro(60), Micro(-70)>>

\* the entries of the first operand: position only, position and clock, or
\* the full state; those of the second operand: position only or the full state
EntriesA ==
    { SP3Entry(PosA, None, FALSE, FALSE, FALSE, FALSE, None, None),
      SP3Entry(PosA, None, FALSE, FALSE, FALSE, FALSE, Some(Micro(10571484)), None),
      SP3Entry(PosA, Some(VelA), FALSE, FALSE, FALSE, FALSE, Some(Micro(10571484)),
               Some(Micro(5))) }
EntriesB ==
    { SP3Entry(PosB, None, FALSE, FALSE, FALSE, FALSE, None, None),
      SP3Entry(PosB, Some(VelB), FALSE, FALSE, FALSE, FALSE, Some(Micro(-176397152)),
               Some(Micro(-2))) }

HasVelocity(data) == \E k \in DOMAIN data : IsSome(data[k].velocity_km_s)

\* a store as a well-formed file gives it: the header says Velocity exactly
\* when velocities are there
StoresOf(entries, max) ==
    { [header |-> [BaseHeader EXCEPT
                      !.data_type = IF HasVelocity(d) THEN "Velocity" ELSE "Position"],
       comments |-> <<>>, prod_attributes |-> None, data |-> d] :
        d \in UNION { [K -> entries] :
                        K \in {X \in SUBSET InitKeys : Cardinality(X) <= max} } }

InitStoresA == StoresOf(EntriesA, MaxEntries)
InitStoresB == StoresOf(EntriesB, MaxOtherEntries)

NoRet == [op |-> "none", self |-> None, rhs |-> None, out |-> None]
Ret(op, self, rhs, out) == [op |-> op, self |-> self, rhs |-> rhs, out |-> out]

IdleReader == [status |-> "idle"]
NoLine == [kind |-> "none"]

Init ==
    /\ sp3 \in InitStoresA
    /\ other \in InitStoresB
    /\ ret = NoRet
    /\ nops = 0
    /\ rd = IdleReader
    /\ seen = NoLine

\* sp3.substract(&sp3) and sp3.substract(&other): a new store is returned
DoSubstract ==
    /\ nops < MaxOps
    /\ \E x \in {sp3, other} : ret' = Ret("substract", sp3, x, Substract(sp3, x))
    /\ nops' = nops + 1
    /\ UNCHANGED <<sp3, other, rd, seen>>

\* sp3.substract_mut(&other)
DoSubstractMut ==
    /\ nops < MaxOps
    /\ sp3' = Substract_mut(sp3, other)
    /\ ret' = Ret("substract_mut", sp3, other, sp3')
    /\ nops' = nops + 1
    /\ UNCHANGED <<other, rd, seen>>

\* a - b on two entries, and a -= b on the same two
DoEntrySub ==
    /\ nops < MaxOps
    /\ \E ka \in DOMAIN sp3.data, kb \in DOMAIN other.data :
          ret' = Ret("sub", sp3.data[ka], other.data[kb],
                     <<EntrySub(sp3.data[ka], other.data[kb]),
                       EntrySubAssign(sp3.data[ka], other.data[kb])>>)
    /\ nops' = nops + 1
    /\ UNCHANGED <<sp3, other, rd, seen>>

\* sp3.merge_mut(&other)
DoMerge ==
    /\ nops < MaxOps
    /\ sp3' = Merge_mut(sp3, other)
    /\ ret' = Ret("merge_mut", sp3, other, HeaderMergeError(sp3.header, other.header))
    /\ nops' = nops + 1
    /\ UNCHANGED <<other, rd, seen>>

\* sp3.split_mut(t)
DoSplit ==
    /\ nops < MaxOps
    /\ \E t \in InitEpochs :
          /\ sp3' = Split_mut(sp3, t)[1]
          /\ ret' = Ret("split_mut", sp3, t, Split_mut(sp3, t)[2])
    /\ nops' = nops + 1
    /\ UNCHANGED <<other, rd, seen>>

DoResolveVelocities ==
    /\ nops < MaxOps
    /\ sp3' = Resolve_velocities_mut(sp3)
    /\ ret' = Ret("resolve_velocities_mut", sp3, None, None)
    /\ nops' = nops + 1
    /\ UNCHANGED <<other, rd, seen>>

DoResolveClockDrift ==
    /\ nops < MaxOps
    /\ sp3' = Resolve_clock_drift_mut(sp3)
    /\ ret' = Ret("resolve_clock_drift_mut", sp3, None, None)
    /\ nops' = nops + 1
    /\ UNCHANGED <<other, rd, seen>>

DoResolveDynamics ==
    /\ nops < MaxOps
    /\ sp3' = Resolve_dynamics_mut(sp3)
    /\ ret' = Ret("resolve_dynamics_mut", sp3, None, None)
    /\ nops' = nops + 1
    /\ UNCHANGED <<other, rd, seen>>

\* a store written by SP3::format is read by SP3::from_reader, which returns
\* a new store and leaves the one written as it is
DoParse ==
    /\ nops < MaxOps
    /\ \E s \in {sp3, other} :
          ret' = Ret("parse", s, None, From_reader(SP3_format(s)))
    /\ nops' = nops + 1
    /\ UNCHANGED <<sp3, other, rd, seen>>

Next ==
    \/ DoParse
    \/ DoSubstract
    \/ DoSubstractMut
    \/ DoEntrySub
    \/ DoMerge
    \/ DoSplit
    \/ DoResolveVelocities
    \/ DoResolveClockDrift
    \/ DoResolveDynamics

Spec == Init /\ [][Next]_vars

(***************************************************************************)
(* The reader fed line by line: any line of InputLines may come next, and  *)
(* the input may end after any line.                                       *)
(***************************************************************************)
MaxLines == 3       \* lines fed to the reader in one behaviour

\* a P-line or V-line: letter, SV, three coordinate columns, the clock column
\* and what follows column 60
DataLine(letter, sv, xyz, clock_column, tail) ==
    <<letter>> \o SvText(sv) \o Coordinates(xyz[1]) \o Coordinates(xyz[2])
    \o Coordinates(xyz[3]) \o clock_column \o tail

\* the clock column of a line without clock, as the SP3 files carry it
SentinelColumn == Coordinates(F64(FALSE, 999999, 999999, -6))

ClockA == Micro(10571484)
ClockB == Micro(-176397152)
VelA_dm_s == <<Micro(10000000), Micro(-20000000), Micro(30000000)>>
DriftA == Micro(-1250000)

\* columns 61 to 80: nothing, E and M, or all four flags
NoFlags == <<>>
FlagsEM == Spaces(14) \o <<"E", " ", " ", " ", "M">>
FlagsAll == Spaces(14) \o <<"E", "P", " ", " ", "M", "P">>

PositionLines ==
    UNION { { DataLine("P", sv, PosA, Coordinates(ClockA), NoFlags),
              DataLine("P", sv, PosB, Coordinates(ClockB), FlagsAll),
              DataLine("P", sv, PosA, SentinelColumn, NoFlags),
              DataLine("P", sv, ZeroVec, Coordinates(ClockA), FlagsEM),
              DataLine("P", sv, ZeroVec, SentinelColumn, FlagsEM) } : sv \in {SVTable[1]} }
    \cup { DataLine("P", sv, PosB, Coordinates(ClockB), NoFlags) : sv \in SVs \ {SVTable[1]} }
    \cup { TrimEnd(DataLine("P", SVTable[1], PosA, <<>>, NoFlags)) }

VelocityLines ==
    { DataLine("V", SVTable[1], VelA_dm_s, Coordinates(DriftA), NoFlags),
      DataLine("V", SVTable[1], VelA_dm_s, SentinelColumn, NoFlags) }

CommentLine == <<"/", "*", " ", "o", "r", "b", "i", "t">>
EofLine == <<"E", "O", "F">>

InputLines ==
    PositionLines \cup VelocityLines
    \cup { EpochMarker(e) : e \in InitEpochs }
    \cup { Header_format(BaseHeader)[i] : i \in 1..4 }
    \cup { CommentLine, EofLine }

InitReader ==
    /\ sp3 = DefaultSP3
    /\ other = DefaultSP3
    /\ ret = NoRet
    /\ nops = 0
    /\ rd = NewReader
    /\ seen = NoLine

Line(text, before) == [kind |-> "line", text |-> text, before |-> before]

\* the loop body on the next line of the input
ReadInputLine ==
    /\ rd.status = "reading"
    /\ nops < MaxLines
    /\ \E l \in InputLines :
          /\ rd' = ReadLine(rd, l)
          /\ seen' = Line(l, rd)
    /\ nops' = nops + 1
    /\ UNCHANGED <<sp3, other, ret>>

\* the loop is left (end of input, EOF line or an error) and from_reader returns
ReaderReturn ==
    /\ rd.status \in {"reading", "eof", "error"}
    /\ ret' = Ret("parse", None, None, ReaderResult(rd))
    /\ sp3' = IF ReaderResult(rd).ok THEN ReaderResult(rd).v ELSE sp3
    /\ rd' = [rd EXCEPT !.status = IF @ = "error" THEN "failed" ELSE "returned"]
    /\ UNCHANGED <<other, nops, seen>>

NextReader ==
    \/ ReadInputLine
    \/ ReaderReturn

SpecReader == InitReader /\ [][NextReader]_vars

(***************************************************************************)
(* The codec: a store is formatted, and what was written is read back.     *)
(***************************************************************************)
CommentA == <<"o", "r", "b", "i", "t">>

\* entries as a reader leaves them: a clock, or a clock and flags, or the full
\* state; and a bare position
CodecEntries ==
    { SP3Entry(PosA, None, FALSE, FALSE, FALSE, FALSE, Some(ClockA), None),
      SP3Entry(PosB, None, TRUE, TRUE, TRUE, TRUE, Some(ClockB), None),
      SP3Entry(PosA, Some(VelA), FALSE, FALSE, FALSE, FALSE, Some(ClockA), Some(Micro(-125000))),
      SP3Entry(PosB, None, FALSE, FALSE, FALSE, FALSE, None, None) }

CodecStores ==
    { [s EXCEPT !.comments = c] : s \in StoresOf(CodecEntries, MaxEntries), c \in {<<>>, <<CommentA>>} }

InitCodec ==
    /\ sp3 \in CodecStores
    /\ other = DefaultSP3
    /\ ret = NoRet
    /\ nops = 0
    /\ rd = IdleReader
    /\ seen = NoLine

\* sp3.format(writer)
DoFormat ==
    /\ ret.op = "none"
    /\ ret' = Ret("format", sp3, None, SP3_format(sp3))
    /\ rd' = NewReader
    /\ UNCHANGED <<sp3, other, nops, seen>>

\* the loop body on the next line written
ReadWrittenLine ==
    /\ ret.op = "format"
    /\ rd.status = "reading"
    /\ nops < Len(ret.out)
    /\ rd' = ReadLine(rd, ret.out[nops + 1])
    /\ seen' = Line(ret.out[nops + 1], rd)
    /\ nops' = nops + 1
    /\ UNCHANGED <<sp3, other, ret>>

\* from_reader returns what it read of the lines written
ReadBackReturn ==
    /\ ret.op = "format"
    /\ rd.status \in {"eof", "error"} \/ (rd.status = "reading" /\ nops = Len(ret.out))
    /\ ret' = Ret("parse", sp3, ret.out, ReaderResult(rd))
    /\ other' = IF ReaderResult(rd).ok THEN ReaderResult(rd).v ELSE other
    /\ rd' = [rd EXCEPT !.status = IF @ = "error" THEN "failed" ELSE "returned"]
    /\ UNCHANGED <<sp3, nops, seen>>

NextCodec ==
    \/ DoFormat
    \/ ReadWrittenLine
    \/ ReadBackReturn

SpecCodec == InitCodec /\ [][NextCodec]_vars

(***************************************************************************)
(* Properties of the set algebra                                           *)
(***************************************************************************)
\* C1: substract(s, s) returns a store in which every entry has position
\* exactly (0,0,0), clock_us exactly 0 wherever s defines a clock, and no
\* velocity and no clock drift wherever s has none.
C1_SubstractSelfIsNull ==
    (ret.op = "substract" /\ ret.rhs = ret.self) =>
        /\ DOMAIN ret.out.data = DOMAIN ret.self.data
        /\ \A k \in DOMAIN ret.out.data :
              /\ ret.out.data[k].position_km = ZeroVec
              /\ IsSome(ret.self.data[k].clock_us) => ret.out.data[k].clock_us = Some(Zero)
              /\ IsNone(ret.self.data[k].velocity_km_s) => IsNone(ret.out.data[k].velocity_km_s)
              /\ IsNone(ret.self.data[k].clock_drift_ns) => IsNone(ret.out.data[k].clock_drift_ns)

\* C1 witness: s - s was computed on a store holding an entry with a clock and
\* an entry without velocity
C1_Witness ==
    /\ ret.op = "substract" /\ ret.rhs = ret.self
    /\ \E k \in DOMAIN ret.out.data :
          IsSome(ret.self.data[k].clock_us) /\ ret.out.data[k].clock_us = Some(Zero)
    /\ \E k \in DOMAIN ret.out.data :
          IsNone(ret.self.data[k].velocity_km_s) /\ ret.out.data[k].position_km = ZeroVec

\* C2: a - b on SP3Entry has the component-wise difference as its position in
\* all three coordinates, the position a -= b produces.
C2_SubIsComponentWise ==
    ret.op = "sub" =>
        /\ ret.out[1].position_km = Vec3Sub(ret.self.position_km, ret.rhs.position_km)
        /\ ret.out[1].position_km = ret.out[2].position_km

\* C3: after substract_mut(lhs, rhs) each optional field of a retained entry is
\* present if and only if it is present in both the lhs and the rhs entry.
C3_OptionalIffBoth ==
    ret.op = "substract_mut" =>
        \A k \in DOMAIN ret.out.data :
            LET l == ret.self.data[k]
                r == Get(ret.rhs.data, k)
                o == ret.out.data[k]
            IN  /\ IsSome(o.velocity_km_s) <=> (IsSome(l.velocity_km_s) /\ IsSome(r.velocity_km_s))
                /\ IsSome(o.clock_us) <=> (IsSome(l.clock_us) /\ IsSome(r.clock_us))
                /\ IsSome(o.clock_drift_ns) <=> (IsSome(l.clock_drift_ns) /\ IsSome(r.clock_drift_ns))

\* every store in sight: the two operands and a store the last operation returned
StoresInSight ==
    {sp3, other}
    \cup (IF ret.op \in {"substract", "split_mut"} THEN {ret.out} ELSE {})
    \cup (IF ret.op = "parse" /\ ret.out.ok THEN {ret.out.v} ELSE {})

\* C4: in every store reachable by parse, resolve_velocities,
\* resolve_clock_drift, resolve_dynamics, split, substract and merge, an entry
\* with a velocity lives in a store whose header data_type is Velocity.
C4_VelocityImpliesDataType ==
    \A s \in StoresInSight : HasVelocity(s.data) => s.header.data_type = "Velocity"

\* C5: epochs() yields each distinct epoch of the store exactly once and in
\* strictly ascending order, whatever epochs each satellite covers.
C5_EpochsAscendingOnce ==
    LET es == Epochs_iter(sp3)
    IN  /\ \A i \in 1..(Len(es) - 1) : EpochLess(es[i], es[i + 1])
        /\ \A k \in DOMAIN sp3.data : \E i \in 1..Len(es) : EpochEq(es[i], k.epoch)
        /\ \A i \in 1..Len(es) : \E k \in DOMAIN sp3.data : EpochEq(es[i], k.epoch)

(***************************************************************************)
(* Properties of the codec and of the reader                               *)
(***************************************************************************)
\* C6: for every store s, formatting s and parsing the output back yields a
\* store equal to s: same header, same comments, same set of (SV, epoch) keys
\* and an identical entry for every key.
C6_FormatParseRoundTrip ==
    ret.op = "parse" =>
        /\ ret.out.ok
        /\ ret.out.v.header = ret.self.header
        /\ ret.out.v.comments = ret.self.comments
        /\ \A k \in DOMAIN ret.self.data : Contains(ret.out.v.data, k)
        /\ \A k \in DOMAIN ret.out.v.data : Contains(ret.self.data, k)
        /\ \A k \in DOMAIN ret.self.data :
              Contains(ret.out.v.data, k) => Get(ret.out.v.data, k) = ret.self.data[k]

\* the line consumed last, trimmed as the loop trims it
SeenLine == Trim(seen.text)

\* the reader took a P-line of at least 60 characters
SeenPosition ==
    /\ seen.kind = "line"
    /\ seen.before.status = "reading"
    /\ position_entry(SeenLine)
    /\ Len(SeenLine) >= 60

\* what that P-line parsed to, and the key it addresses
SeenEntry == PositionEntry_from_str(SeenLine)
SeenKey == SP3Key(SeenEntry.v.sv, seen.before.epoch)

\* C7: a P-line whose clock column holds the sentinel 999999.999999 parses to
\* an entry with clock_us absent, and the sentinel value is never stored as a
\* clock offset, whatever the position columns contain.
C7_SentinelClockAbsent ==
    (SeenPosition /\ Slice(SeenLine, 46, 60) = SentinelColumn) =>
        /\ SeenEntry.ok
        /\ IsNone(SeenEntry.v.clock_us)
        /\ rd.status \in {"reading", "returned"}
        /\ \A k \in DOMAIN rd.data :
              rd.data[k].clock_us # Some(F64(FALSE, 999999, 999999, -6))

\* C8 as stated: in every store the reader produces, whatever the lines and
\* also when a V-line comes before or without its P-line, no stored entry has
\* position (0,0,0).
C8_NoZeroPositionStored ==
    (ret.op = "parse" /\ ret.out.ok) =>
        \A k \in DOMAIN ret.out.v.data : ret.out.v.data[k].position_km # ZeroVec

\* C8 amended: in every store the reader produces, an entry with position
\* (0,0,0) is one a V-line seeded and no P-line wrote: it carries a velocity,
\* no clock and no flag.
C8_ZeroPositionOnlySeeded ==
    (ret.op = "parse" /\ ret.out.ok) =>
        \A k \in DOMAIN ret.out.v.data :
            LET e == ret.out.v.data[k]
            IN  e.position_km = ZeroVec =>
                    /\ IsSome(e.velocity_km_s)
                    /\ IsNone(e.clock_us)
                    /\ ~e.maneuver /\ ~e.clock_event /\ ~e.predicted_clock /\ ~e.predicted_orbit

\* C8 witness: the reader returned a store in which a V-line without P-line
\* left an entry with position (0,0,0), after a P-line with an all-zero
\* position had been read too
C8_Witness ==
    /\ ret.op = "parse" /\ ret.out.ok
    /\ \E k \in DOMAIN ret.out.v.data :
          ret.out.v.data[k].position_km = ZeroVec /\ IsSome(ret.out.v.data[k].velocity_km_s)
    /\ SeenPosition /\ SeenEntry.ok /\ ~PositionIsValid(SeenEntry.v)

\* the P-line taken last has an all-zero position
SeenZeroPosition ==
    /\ SeenPosition
    /\ SeenEntry.ok
    /\ <<SeenEntry.v.x_km, SeenEntry.v.y_km, SeenEntry.v.z_km>> = ZeroVec

\* C9 as stated: a P-line of at least 60 characters whose three coordinates
\* are all zero still creates an entry for its (SV, epoch), carrying the
\* line's clock and flags.
C9_ZeroPositionStillCreates ==
    SeenZeroPosition =>
        /\ rd.status \in {"reading", "returned"}
        /\ Contains(rd.data, SeenKey)
        /\ Get(rd.data, SeenKey).clock_us = SeenEntry.v.clock_us
        /\ Get(rd.data, SeenKey).clock_event = SeenEntry.v.clock_event
        /\ Get(rd.data, SeenKey).maneuver = SeenEntry.v.maneuver

\* C9 amended: a P-line of at least 60 characters whose three coordinates are
\* all zero creates no entry and changes none: the map is left as it was, the
\* current epoch too, and only the SV is noted among the vehicles.
C9_ZeroPositionLineLeavesMap ==
    SeenZeroPosition =>
        /\ rd.status \in {"reading", "returned"}
        /\ rd.data = seen.before.data
        /\ rd.epoch = seen.before.epoch
        /\ SeqContains(rd.vehicles, SeenEntry.v.sv)

\* C9 witness: an all-zero P-line carrying a clock and flags was read for a
\* key the map did not hold, and the map still does not hold it
C9_Witness ==
    /\ SeenZeroPosition
    /\ SeenEntry.v.clock_us = Some(ClockA)
    /\ SeenEntry.v.clock_event /\ SeenEntry.v.maneuver
    /\ ~Contains(seen.before.data, SeenKey)
    /\ ~Contains(rd.data, SeenKey)
    /\ rd.data # EmptyData

\* C10: a P-line for a key the store already holds (for example seeded by a
\* V-line) that carries a clock value leaves the stored entry with the P-line's
\* clock, position and flags.
C10_PositionLineSetsClock ==
    ( /\ SeenPosition
      /\ SeenEntry.ok
      /\ PositionIsValid(SeenEntry.v)
      /\ Slice(SeenLine, 46, 60) # SentinelColumn
      /\ IsSome(SeenEntry.v.clock_us)
      /\ Contains(seen.before.data, SeenKey) ) =>
        /\ rd.status \in {"reading", "returned"}
        /\ Get(rd.data, SeenKey).position_km
               = <<SeenEntry.v.x_km, SeenEntry.v.y_km, SeenEntry.v.z_km>>
        /\ Get(rd.data, SeenKey).maneuver = SeenEntry.v.maneuver
        /\ Get(rd.data, SeenKey).predicted_orbit = SeenEntry.v.orbit_prediction
        /\ Get(rd.data, SeenKey).clock_us = SeenEntry.v.clock_us

(***************************************************************************)
(* Properties of the velocity lines, the epoch markers and the comments    *)
(***************************************************************************)
\* C11: for every entry with a velocity, reading the V-line the writer emits
\* for it restores the velocity component for component, and the clock drift
\* when there is one: the factors applied on reading are the inverse of those
\* applied on writing.
C11_VelocityLineRoundTrip ==
    (ret.op = "parse" /\ ret.out.ok) =>
        \A k \in DOMAIN ret.self.data :
            IsSome(ret.self.data[k].velocity_km_s) =>
                /\ Contains(ret.out.v.data, k)
                /\ Get(ret.out.v.data, k).velocity_km_s = ret.self.data[k].velocity_km_s
                /\ IsSome(ret.self.data[k].clock_drift_ns) =>
                      Get(ret.out.v.data, k).clock_drift_ns = ret.self.data[k].clock_drift_ns

(***************************************************************************)
(* The reader on epoch markers and comments: markers of every tick of the  *)
(* model, the first %c line, a P-line, a V-line and comments of several    *)
(* lengths.                                                                *)
(***************************************************************************)
MarkerEpochs == {Epoch("GPST", t) : t \in 0..(NumEpochs * TicksPerSecond - 1)}
MarkerLines == {EpochMarker(e) : e \in MarkerEpochs}

CommentText == {<<"o", "r", "b", "i", "t">>, <<"o", "k">>, <<"x">>}

\* a comment as SP3::format writes it
CommentLineOf(text) == <<"/", "*", " ">> \o text

\* a marker cut after the whole seconds
ShortMarker == Slice(EpochMarker(Epoch("GPST", 0)), 0, 22)

TextLines ==
    MarkerLines
    \cup { ShortMarker, Header_format(BaseHeader)[3] }
    \cup { DataLine("P", SVTable[1], PosA, Coordinates(ClockA), NoFlags),
           DataLine("V", SVTable[1], VelA_dm_s, Coordinates(DriftA), NoFlags) }
    \cup { CommentLineOf(c) : c \in CommentText }

InitText ==
    /\ sp3 = DefaultSP3
    /\ other = DefaultSP3
    /\ ret = NoRet
    /\ nops = 0
    /\ rd = NewReader
    /\ seen = NoLine

\* the loop body on the next line of the input
ReadTextLine ==
    /\ rd.status = "reading"
    /\ nops < MaxLines
    /\ \E l \in TextLines :
          /\ rd' = ReadLine(rd, l)
          /\ seen' = Line(l, rd)
    /\ nops' = nops + 1
    /\ UNCHANGED <<sp3, other, ret>>

\* the loop is left and from_reader returns
TextReturn ==
    /\ rd.status \in {"reading", "eof", "error"}
    /\ ret' = Ret("parse", None, None, ReaderResult(rd))
    /\ sp3' = IF ReaderResult(rd).ok THEN ReaderResult(rd).v ELSE sp3
    /\ rd' = [rd EXCEPT !.status = IF @ = "error" THEN "failed" ELSE "returned"]
    /\ UNCHANGED <<other, nops, seen>>

NextText ==
    \/ ReadTextLine
    \/ TextReturn

SpecText == InitText /\ [][NextText]_vars

\* the reader took an epoch marker
SeenMarker ==
    /\ seen.kind = "line"
    /\ seen.before.status = "reading"
    /\ new_epoch(SeenLine)

\* the date and time a marker states, fraction of second included, in a time scale
MarkerEpoch(line, timescale) ==
    LET e == CHOOSE x \in MarkerEpochs : EpochMarker(x) = line
    IN  Epoch(timescale, e.t)

\* the reader took a V-line of at least 60 characters
SeenVelocity ==
    /\ seen.kind = "line"
    /\ seen.before.status = "reading"
    /\ velocity_entry(SeenLine)
    /\ Len(SeenLine) >= 60

\* C12: every P-line and V-line is stored under the epoch of the most recent
\* epoch marker, and that epoch is the marker's full date and time, fraction
\* of second included, in the time scale the first %c line declared; markers
\* that differ in the fraction only give distinct keys.
C12_EpochOfMarker ==
    /\ (SeenMarker /\ SeenLine \in MarkerLines) =>
          /\ rd.status \in {"reading", "returned"}
          /\ rd.epoch = MarkerEpoch(SeenLine, seen.before.timescale)
    /\ ((SeenPosition \/ SeenVelocity) /\ rd.status \in {"reading", "returned"}) =>
          /\ rd.epoch = seen.before.epoch
          /\ \A k \in DOMAIN rd.data :
                ~Contains(seen.before.data, k) => k.epoch = seen.before.epoch

\* the reader took a line that starts with the comment prefix
SeenComment ==
    /\ seen.kind = "line"
    /\ seen.before.status = "reading"
    /\ StartsWith(SeenLine, <<"/", "*", " ">>)

\* C13: for every line that starts with the three-character comment prefix the
\* reader appends the text from column 4 onward to the comment list, in file
\* order and whatever the length of the text, one-character comments included.
C13_CommentAppended ==
    SeenComment =>
        /\ rd.status \in {"reading", "returned"}
        /\ rd.comments = Append(seen.before.comments, SliceFrom(seen.text, 3))

(***************************************************************************)
(* Properties of the writer                                                *)
(***************************************************************************)
\* the lines SP3::format wrote, the store it wrote them for, and the lines
\* between the comments and EOF
Written == ret.out
WrittenStore == ret.self
BodyLines == (5 + Len(WrittenStore.comments))..(Len(Written) - 1)

\* the epoch a written marker states
MarkerEpochsOf(line) == {e \in MarkerEpochs : EpochMarker(e) = line}
WrittenEpoch(i) == CHOOSE e \in MarkerEpochsOf(Written[i]) : TRUE

\* the marker that opens the block of body line i
BlockOf(i) == CHOOSE j \in BodyLines :
                  /\ j <= i /\ new_epoch(Written[j])
                  /\ \A l \in BodyLines : (l <= i /\ new_epoch(Written[l])) => l <= j

\* the key a written P-line or V-line stands for
WrittenKey(i) == SP3Key(SV_from_str(Slice(Written[i], 1, 4)).v, WrittenEpoch(BlockOf(i)))

\* C14: the writer emits H1, H2, the two %c lines, every comment, then one
\* block per distinct epoch, the markers in strictly ascending order and each
\* epoch once, within a block one P-line (and its V-line when the entry has a
\* velocity) per satellite in ascending SV order, and EOF as the last line.
C14_WriterOrder ==
    ret.op = "format" =>
        /\ Len(Written) >= 5 + Len(WrittenStore.comments)
        /\ \A i \in 1..4 : Written[i] = Header_format(WrittenStore.header)[i]
        /\ is_header_line1(Written[1]) /\ is_header_line2(Written[2])
        /\ file_descriptor(Written[3]) /\ file_descriptor(Written[4])
        /\ \A i \in 1..Len(WrittenStore.comments) :
              Written[4 + i] = CommentLineOf(WrittenStore.comments[i])
        /\ Written[Len(Written)] = <<"E", "O", "F">>
        /\ \A i \in BodyLines :
              \/ new_epoch(Written[i]) /\ MarkerEpochsOf(Written[i]) # {}
              \/ /\ position_entry(Written[i]) \/ velocity_entry(Written[i])
                 /\ \E j \in BodyLines : j < i /\ new_epoch(Written[j])
        /\ \A i, j \in BodyLines :
              (i < j /\ new_epoch(Written[i]) /\ new_epoch(Written[j])) =>
                  EpochLess(WrittenEpoch(i), WrittenEpoch(j))
        /\ \A k \in DOMAIN WrittenStore.data :
              \E i \in BodyLines :
                  /\ position_entry(Written[i]) /\ SP3KeyEq(WrittenKey(i), k)
                  /\ IsSome(WrittenStore.data[k].velocity_km_s) =>
                        /\ i + 1 \in BodyLines /\ velocity_entry(Written[i + 1])
        /\ \A i \in BodyLines :
              position_entry(Written[i]) =>
                  /\ Contains(WrittenStore.data, WrittenKey(i))
                  /\ \A j \in BodyLines :
                        (i < j /\ position_entry(Written[j]) /\ BlockOf(i) = BlockOf(j)) =>
                            SVLess(WrittenKey(i).sv, WrittenKey(j).sv)
        /\ \A i \in BodyLines :
              velocity_entry(Written[i]) =>
                  /\ i - 1 \in BodyLines /\ position_entry(Written[i - 1])
                  /\ WrittenKey(i - 1).sv = WrittenKey(i).sv
                  /\ IsSome(Get(WrittenStore.data, WrittenKey(i - 1)).velocity_km_s)
        /\ \A i \in BodyLines :
              new_epoch(Written[i]) =>
                  \E k \in DOMAIN WrittenStore.data : EpochEq(k.epoch, WrittenEpoch(i))

\* C14 witness: a store with a comment and two entries, one with a velocity,
\* whose keys run against the order of their epochs, was written
C14_Witness ==
    /\ ret.op = "format"
    /\ Len(WrittenStore.comments) = 1
    /\ \E k \in DOMAIN WrittenStore.data : IsSome(WrittenStore.data[k].velocity_km_s)
    /\ \E a, b \in DOMAIN WrittenStore.data :
          SP3KeyLess(a, b) /\ EpochLess(b.epoch, a.epoch)
    /\ Len(Written) = 11

(***************************************************************************)
(* The dynamics on stores with up to MaxDynEntries entries of two          *)
(* satellites over the first ticks of the model: entries with or without   *)
(* clock, at two positions, or already carrying velocity and drift.        *)
(***************************************************************************)
MaxDynEntries == 3  \* entries of a store the dynamics are resolved on
MaxDynTick == 2     \* the epochs of these stores are the ticks 0 .. MaxDynTick

DynEpochs == {Epoch("GPST", t) : t \in 0..MaxDynTick}
DynKeys == {SP3Key(SVTable[i], t) : i \in 1..Min(NumSV, 2), t \in DynEpochs}

DynEntries ==
    { SP3Entry(PosA, None, FALSE, FALSE, FALSE, FALSE, Some(ClockA), None),
      SP3Entry(PosB, None, FALSE, FALSE, FALSE, FALSE, None, None),
      SP3Entry(PosB, Some(VelB), FALSE, FALSE, FALSE, FALSE, Some(ClockB), Some(Micro(-2))) }

DynStores ==
    { [header |-> [BaseHeader EXCEPT
                      !.data_type = IF HasVelocity(d) THEN "Velocity" ELSE "Position"],
       comments |-> <<>>, prod_attributes |-> None, data |-> d] :
        d \in UNION { [K -> DynEntries] :
                        K \in {X \in SUBSET DynKeys : Cardinality(X) <= MaxDynEntries} } }

InitDynamics ==
    /\ sp3 \in DynStores
    /\ other = DefaultSP3
    /\ ret = NoRet
    /\ nops = 0
    /\ rd = IdleReader
    /\ seen = NoLine

\* sp3.resolve_velocities_mut()
DynResolveVelocities ==
    /\ nops < MaxOps
    /\ sp3' = Resolve_velocities_mut(sp3)
    /\ ret' = Ret("resolve_velocities_mut", sp3, None, None)
    /\ nops' = nops + 1
    /\ UNCHANGED <<other, rd, seen>>

\* sp3.resolve_clock_drift_mut()
DynResolveClockDrift ==
    /\ nops < MaxOps
    /\ sp3' = Resolve_clock_drift_mut(sp3)
    /\ ret' = Ret("resolve_clock_drift_mut", sp3, None, None)
    /\ nops' = nops + 1
    /\ UNCHANGED <<other, rd, seen>>

\* sp3.resolve_dynamics_mut()
DynResolveDynamics ==
    /\ nops < MaxOps
    /\ sp3' = Resolve_dynamics_mut(sp3)
    /\ ret' = Ret("resolve_dynamics_mut", sp3, None, None)
    /\ nops' = nops + 1
    /\ UNCHANGED <<other, rd, seen>>

NextDynamics ==
    \/ DynResolveVelocities
    \/ DynResolveClockDrift
    \/ DynResolveDynamics

SpecDynamics == InitDynamics /\ [][NextDynamics]_vars

(***************************************************************************)
(* Properties of the dynamics                                              *)
(***************************************************************************)
\* the keys of the satellite of k that come before k
EarlierKeys(data, k) == {p \in DOMAIN data : p.sv = k.sv /\ EpochLess(p.epoch, k.epoch)}

\* the key of the entry of the same satellite immediately before k
PrecedingKey(data, k) ==
    CHOOSE p \in EarlierKeys(data, k) :
        \A q \in EarlierKeys(data, k) : EpochLeq(q.epoch, p.epoch)

\* (position - position of the preceding entry) / elapsed seconds
DifferenceQuotient(data, k) ==
    LET p == PrecedingKey(data, k)
    IN  [i \in 1..3 |-> Rate(data[k].position_km[i], data[p].position_km[i], k.epoch, p.epoch)]

\* resolve_velocities fills the velocity of k
VelocityFilled(data, k) == IsNone(data[k].velocity_km_s) /\ EarlierKeys(data, k) # {}

\* C15: resolve_velocities leaves the first entry of each satellite as it is,
\* leaves every velocity already present unchanged, sets every other missing
\* velocity to (position - position of the preceding entry of the satellite)
\* / elapsed seconds, and sets the header data type to Velocity if and only if
\* it filled a velocity, leaving it unchanged otherwise.
C15_ResolveVelocities ==
    ret.op = "resolve_velocities_mut" =>
        /\ DOMAIN sp3.data = DOMAIN ret.self.data
        /\ \A k \in DOMAIN ret.self.data :
              sp3.data[k] =
                  IF VelocityFilled(ret.self.data, k)
                  THEN [ret.self.data[k] EXCEPT
                           !.velocity_km_s = Some(DifferenceQuotient(ret.self.data, k))]
                  ELSE ret.self.data[k]
        /\ sp3.header =
              IF \E k \in DOMAIN ret.self.data : VelocityFilled(ret.self.data, k)
              THEN [ret.self.header EXCEPT !.data_type = "Velocity"]
              ELSE ret.self.header
        /\ sp3.comments = ret.self.comments

\* C15 witness: velocities were resolved on a store of three entries of one
\* satellite at three positions in turn, the second and the third filled with
\* different values
C15_Witness ==
    /\ ret.op = "resolve_velocities_mut"
    /\ ret.self.header.data_type = "Position"
    /\ sp3.header.data_type = "Velocity"
    /\ \E a, b, c \in DOMAIN sp3.data :
          /\ a.sv = b.sv /\ b.sv = c.sv
          /\ EpochLess(a.epoch, b.epoch) /\ EpochLess(b.epoch, c.epoch)
          /\ IsNone(sp3.data[a].velocity_km_s)
          /\ IsSome(sp3.data[b].velocity_km_s) /\ IsSome(sp3.data[c].velocity_km_s)
          /\ sp3.data[b].velocity_km_s # sp3.data[c].velocity_km_s
          /\ sp3.data[c].velocity_km_s # Some(ZeroVec)

\* C16: resolve_velocities is idempotent: resolving the velocities of a store
\* whose velocities were just resolved changes nothing, header included.
C16_ResolveVelocitiesIdempotent ==
    ret.op = "resolve_velocities_mut" => Resolve_velocities_mut(sp3) = sp3

\* C16 witness: velocities were resolved on a store of data type Position,
\* which filled the velocity of two entries and changed the data type
C16_Witness ==
    /\ ret.op = "resolve_velocities_mut"
    /\ ret.self.header.data_type = "Position"
    /\ sp3.header.data_type = "Velocity"
    /\ \E a, b \in DOMAIN sp3.data :
          /\ a # b
          /\ VelocityFilled(ret.self.data, a) /\ VelocityFilled(ret.self.data, b)
          /\ IsSome(sp3.data[a].velocity_km_s) /\ IsSome(sp3.data[b].velocity_km_s)

\* C17: resolve_dynamics fills the velocities resolve_velocities fills and the
\* clock drifts resolve_clock_drift fills, with the same values, also where
\* entries without clock lie between entries with one: its entries are those
\* of resolve_clock_drift(resolve_velocities(s)).
C17_DynamicsIsBoth ==
    ret.op = "resolve_dynamics_mut" =>
        sp3.data = Resolve_clock_drift_mut(Resolve_velocities_mut(ret.self)).data

(***************************************************************************)
(* Properties of split                                                     *)
(***************************************************************************)
\* C18: split(s, t) returns two shares whose key sets partition the keys of
\* s: the left share holds the keys with epoch <= t, the right share the keys
\* with epoch > t, they are disjoint, their union is the key set of s, and
\* every entry is unchanged.
C18_SplitPartitions ==
    ret.op = "split_mut" =>
        /\ DOMAIN sp3.data = {k \in DOMAIN ret.self.data : EpochLeq(k.epoch, ret.rhs)}
        /\ DOMAIN ret.out.data = {k \in DOMAIN ret.self.data : ~EpochLeq(k.epoch, ret.rhs)}
        /\ DOMAIN sp3.data \cap DOMAIN ret.out.data = {}
        /\ DOMAIN sp3.data \cup DOMAIN ret.out.data = DOMAIN ret.self.data
        /\ \A k \in DOMAIN sp3.data : sp3.data[k] = ret.self.data[k]
        /\ \A k \in DOMAIN ret.out.data : ret.out.data[k] = ret.self.data[k]

\* C18 witness: a store holding a key at t and a key after t was split at t,
\* and each share took one of them
C18_Witness ==
    /\ ret.op = "split_mut"
    /\ \E a \in DOMAIN sp3.data : EpochEq(a.epoch, ret.rhs)
    /\ \E b \in DOMAIN ret.out.data : EpochLess(ret.rhs, b.epoch)
    /\ Cardinality(DOMAIN ret.self.data) = 2

(***************************************************************************)
(* Properties of the failure paths                                         *)
(***************************************************************************)
\* C19: no operation panics but the interpolation asked for an even order; in
\* particular from_reader, on an epoch marker or a V-line shorter than the
\* columns it slices, returns a value or an error.
C19_ReaderNeverPanics ==
    /\ rd.status # "panic"
    /\ ret.op = "parse" => ret.out # Panic

(***************************************************************************)
(* lib.rs: the position iterators and satellite_position_interpolate.      *)
(* interp is the function pointer the caller hands over: it is modelled by *)
(* the window it is invoked with.                                          *)
(***************************************************************************)
\* SP3::satellites_position_km_iter
Satellites_position_km_iter(self) ==
    LET ks == KeysIter(self.data)
    IN  [i \in 1..Len(ks) |->
            [t |-> ks[i].epoch, sv |-> ks[i].sv, predicted |-> self.data[ks[i]].predicted_orbit,
             maneuvered |-> self.data[ks[i]].maneuver, coords |-> self.data[ks[i]].position_km]]

\* SP3::satellites_stable_position_km_iter
Satellites_stable_position_km_iter(self) ==
    LET NotManeuvered(x) == ~x.maneuvered
        q == SelectSeq(Satellites_position_km_iter(self), NotManeuvered)
    IN  [i \in 1..Len(q) |->
            [t |-> q[i].t, sv |-> q[i].sv, predicted |-> q[i].predicted, coords |-> q[i].coords]]

\* (t_i - t).abs() < smallest_dt: a tick is longer than two nanoseconds
WithinSmallestDt(a, b) == Tai(a) = Tai(b)

\* the locals of satellite_position_interpolate before its loop
InterpLocals ==
    [past_t |-> DefaultEpoch, t_x |-> None, tx_perfect_match |-> FALSE,
     w0_len |-> 0, w1_len |-> 0, window |-> <<>>]

\* the loop of satellite_position_interpolate from item i on (index_i = i - 1)
RECURSIVE InterpWalk(_, _, _, _, _, _)
InterpWalk(items, i, st, sv, t, order) ==
    IF i > Len(items) THEN st
    ELSE LET it == items[i]
             target_len == order + 1
             target_len_2 == target_len \div 2
             pushed == Append(st.window, <<it.t, it.coords>>)
             win == IF Len(pushed) > target_len THEN Tail(pushed) ELSE pushed
         IN  IF it.sv # sv
             THEN InterpWalk(items, i + 1, [st EXCEPT !.past_t = it.t], sv, t, order)
             ELSE IF IsNone(st.t_x)
             THEN IF EpochLess(st.past_t, t) /\ EpochLeq(t, it.t)
                  THEN InterpWalk(items, i + 1,
                           [st EXCEPT !.window = win, !.w0_len = i - 1, !.t_x = Some(it.t),
                                      !.tx_perfect_match = WithinSmallestDt(it.t, t),
                                      !.past_t = it.t], sv, t, order)
                  ELSE InterpWalk(items, i + 1,
                           [st EXCEPT !.window = win, !.past_t = it.t], sv, t, order)
             ELSE IF i - 1 = st.w0_len + target_len_2 - 1
                  THEN [st EXCEPT !.window = win, !.w1_len = target_len_2]
                  ELSE InterpWalk(items, i + 1,
                           [st EXCEPT !.window = win, !.past_t = it.t], sv, t, order)

\* the call interp(order, t, window)
Interp(order, t, window) == Some(window)

\* SP3::satellite_position_interpolate
Satellite_position_interpolate(self, sv, t, order) ==
    LET st == InterpWalk(Satellites_stable_position_km_iter(self), 1, InterpLocals, sv, t, order)
        target_len_2 == (order + 1) \div 2
        target_len_2_1 == target_len_2 - 1
    IN  IF order % 2 = 0 THEN Panic
        ELSE IF IsNone(st.t_x) THEN Ok(None)
        ELSE IF st.w0_len < target_len_2 THEN Ok(None)
        ELSE IF st.tx_perfect_match /\ st.w1_len < target_len_2_1 THEN Ok(None)
        ELSE IF ~st.tx_perfect_match /\ st.w1_len < target_len_2 THEN Ok(None)
        ELSE Ok(Interp(order, t, st.window))

(***************************************************************************)
(* The interpolation on stores sampled every second tick: each satellite   *)
(* of the store has all MaxSamples samples, one of them at most under      *)
(* maneuver; the instant asked for is any tick of the sampled span.        *)
(***************************************************************************)
MaxSamples == 5     \* samples of a satellite
MaxOrder == 3       \* interpolation orders 1 .. MaxOrder

SampleEpochs == {Epoch("GPST", 2 * i) : i \in 0..(MaxSamples - 1)}
QueryEpochs == {Epoch("GPST", i) : i \in 0..(2 * (MaxSamples - 1))}
InterpSVs == {SVTable[i] : i \in 1..Min(NumSV, 2)}

InterpStores ==
    { [header |-> BaseHeader, comments |-> <<>>, prod_attributes |-> None,
       data |-> [k \in {SP3Key(sv, e) : sv \in S, e \in SampleEpochs} |->
                    SP3Entry(IF k.sv = SVTable[1] THEN PosA ELSE PosB, None, FALSE,
                             k \in M, FALSE, FALSE, None, None)]] :
        S \in SUBSET InterpSVs \ {{}},
        M \in {X \in SUBSET {SP3Key(sv, e) : sv \in InterpSVs, e \in SampleEpochs} :
                   Cardinality(X) <= 1} }

InitInterp ==
    /\ sp3 \in InterpStores
    /\ other = DefaultSP3
    /\ ret = NoRet
    /\ nops = 0
    /\ rd = IdleReader
    /\ seen = NoLine

\* sp3.satellite_position_interpolate(sv, t, order, interp)
DoInterpolate ==
    /\ nops < MaxOps
    /\ \E sv \in InterpSVs, t \in QueryEpochs, order \in 1..MaxOrder :
          ret' = Ret("satellite_position_interpolate", sp3,
                     [sv |-> sv, t |-> t, order |-> order],
                     Satellite_position_interpolate(sp3, sv, t, order))
    /\ nops' = nops + 1
    /\ UNCHANGED <<sp3, other, rd, seen>>

NextInterp ==
    \/ DoInterpolate

SpecInterp == InitInterp /\ [][NextInterp]_vars

(***************************************************************************)
(* Properties of the interpolation                                         *)
(***************************************************************************)
\* the stable samples of a satellite, in ascending epoch order
StableSamples(self, sv) ==
    LET OfSV(x) == x.sv = sv
        q == SelectSeq(Satellites_stable_position_km_iter(self), OfSV)
    IN  [i \in 1..Len(q) |-> <<q[i].t, q[i].coords>>]

\* w is a run of n consecutive stable samples of sv with t at or between its
\* two middle samples
CentredWindow(self, sv, t, n, w) ==
    /\ Len(w) = n
    /\ \E o \in 0..Len(StableSamples(self, sv)) :
          /\ o + n <= Len(StableSamples(self, sv))
          /\ \A i \in 1..n : w[i] = StableSamples(self, sv)[o + i]
    /\ \A i \in 1..(n - 1) : EpochLess(w[i][1], w[i + 1][1])
    /\ EpochLeq(w[n \div 2][1], t) /\ EpochLeq(t, w[n \div 2 + 1][1])

\* C20: for every odd order N and every satellite, wherever it lies in the key
\* order, the interpolation function is invoked only with a window of exactly
\* N+1 stable samples of the satellite in ascending epoch order, centred so
\* that t lies at or between the two middle samples; with too few samples
\* before or after t nothing is returned.
C20_WindowCentred ==
    ( /\ ret.op = "satellite_position_interpolate"
      /\ ret.rhs.order % 2 = 1
      /\ ret.out.ok /\ IsSome(ret.out.v) ) =>
        CentredWindow(ret.self, ret.rhs.sv, ret.rhs.t, ret.rhs.order + 1, Unwrap(ret.out.v))

(***************************************************************************)
(* The second header line on its own: Line2::format on H2 values, then     *)
(* Line2::from_str on the line written; Line2::from_str on the lines of    *)
(* test_line2_parsing, then Line2::format on the value read.               *)
(***************************************************************************)
Line2Weeks == {7, 2276, 100000}
Line2WeekNanos == {Nanos(0, 0), Nanos(10, 123456780), Nanos(21600, 5)}
Line2Periods == {Nanos(900, 0), Nanos(10, 550000000), Nanos(0, 123456785), Nanos(604800, 0)}
Line2Mjds == {50453, 60176, 100000}
Line2Fractions == {Zero, Norm(F64(FALSE, 0, 25, -2)), Norm(F64(FALSE, 0, 75, -2))}

Line2Values ==
    { [week |-> w, week_nanos |-> wn, mjd_fract |-> <<m, f>>, sampling_period |-> dt] :
        w \in Line2Weeks, wn \in Line2WeekNanos, m \in Line2Mjds, f \in Line2Fractions,
        dt \in Line2Periods }

\* the lines of test_line2_parsing
Line2Lines ==
    { <<"#","#"," "," ","8","8","7"," "," "," "," "," "," ","0",".","0","0","0","0","0","0","0","0"," "," "," ","9","0","0",".","0","0","0","0","0","0","0","0"," ","5","0","4","5","3"," ","0",".","0","0","0","0","0","0","0","0","0","0","0","0","0">>,
      <<"#","#"," "," "," "," ","7"," "," "," "," "," ","1","0",".","1","2","3","4","5","6","7","8"," "," "," "," ","1","0",".","5","5","0","0","0","0","0","0"," ","5","0","4","5","3"," ","0",".","0","0","0","0","0","0","0","0","0","0","0","0","0">>,
      <<"#","#"," ","2","2","7","6"," "," ","2","1","6","0","0",".","0","0","0","0","0","0","0","0"," "," "," ","9","0","0",".","0","0","0","0","0","0","0","0"," ","6","0","1","7","6"," ","0",".","2","5","0","0","0","0","0","0","0","0","0","0","0">>,
      <<"#","#"," ","2","2","7","7"," "," ","6","4","8","0","0",".","0","0","0","0","0","0","0","0"," "," "," ","9","0","0",".","0","0","0","0","0","0","0","0"," ","6","0","1","8","3"," ","0",".","7","5","0","0","0","0","0","0","0","0","0","0","0">> }

InitLine2 ==
    /\ sp3 = DefaultSP3
    /\ other = DefaultSP3
    /\ ret = NoRet
    /\ nops = 0
    /\ rd = IdleReader
    /\ seen = NoLine

\* line2.format(w), then Line2::from_str on what was written
DoLine2Format ==
    /\ nops < MaxOps
    /\ \E h \in Line2Values :
          ret' = Ret("Line2::format", h, None,
                     [line |-> Line2_format(h), back |-> Line2_from_str(Line2_format(h))])
    /\ nops' = nops + 1
    /\ UNCHANGED <<sp3, other, rd, seen>>

\* Line2::from_str(line), then line2.format(w) on the value read
DoLine2Parse ==
    /\ nops < MaxOps
    /\ \E line \in Line2Lines :
          LET l2 == Line2_from_str(line)
          IN  ret' = Ret("Line2::from_str", line, None,
                         [parsed |-> l2, again |-> IF l2.ok THEN Line2_format(l2.v) ELSE <<>>])
    /\ nops' = nops + 1
    /\ UNCHANGED <<sp3, other, rd, seen>>

NextLine2 ==
    \/ DoLine2Format
    \/ DoLine2Parse

SpecLine2 == InitLine2 /\ [][NextLine2]_vars

\* C21: the line written for an H2 value has 60 characters and reads back as
\* that value; a well-formed H2 line read and written again is the same line.
C21_Line2RoundTrip ==
    /\ ret.op = "Line2::format" =>
          /\ Len(ret.out.line) = 60
          /\ ret.out.back = Ok(ret.self)
    /\ ret.op = "Line2::from_str" =>
          /\ ret.out.parsed.ok
          /\ ret.out.again = ret.self

(***************************************************************************)
(* production/: the attributes a standardized file name carries            *)
(***************************************************************************)
\* enum Campaign; n is the iteration of Reprocessing(n), 0 otherwise
Campaign(tag, n) == [tag |-> tag, n |-> n]
DefaultCampaign == Campaign("OPS", 0)
DefaultAvailability == "Rapid"
DefaultReleasePeriod == "Daily"

\* impl FromStr for Campaign
Campaign_from_str(s) ==
    IF s = <<"D", "E", "M">> THEN Ok(Campaign("Demo", 0))
    ELSE IF s = <<"T", "S", "T">> THEN Ok(Campaign("Test", 0))
    ELSE IF s = <<"T", "G", "A">> THEN Ok(Campaign("TGA", 0))
    ELSE IF s = <<"O", "P", "S">> THEN Ok(Campaign("OPS", 0))
    ELSE IF s = <<"M", "G", "X">> THEN Ok(Campaign("MGX", 0))
    ELSE IF StartsWith(s, <<"R">>)
         THEN LET rnn == ParseUIntMax(SliceFrom(s, 1), U8Max)
              IN  IF rnn.ok THEN Ok(Campaign("Reprocessing", rnn.v))
                  ELSE Err("InvalidCampaignName")
         ELSE Err("InvalidCampaignName")

\* impl Display for Campaign
Campaign_fmt(self) ==
    CASE self.tag = "Demo" -> <<"D", "E", "M">>
      [] self.tag = "MGX"  -> <<"M", "G", "X">>
      [] self.tag = "OPS"  -> <<"O", "P", "S">>
      [] self.tag = "TGA"  -> <<"T", "G", "A">>
      [] self.tag = "Test" -> <<"T", "S", "T">>
      [] OTHER -> <<"R">> \o ZeroPad(self.n, 2)

\* impl FromStr for Availability
Availability_from_str(s) ==
    IF s = <<"R", "A", "P">> THEN Ok("Rapid")
    ELSE IF s = <<"F", "I", "N">> THEN Ok("Final")
    ELSE IF s = <<"U", "L", "T">> THEN Ok("UltraRapid")
    ELSE Err("InvalidFileAvailability")

\* impl Display for Availability
Availability_fmt(self) ==
    CASE self = "Rapid" -> <<"R", "A", "P">>
      [] self = "Final" -> <<"F", "I", "N">>
      [] OTHER -> <<"U", "L", "T">>

\* the text of each ReleasePeriod
ReleasePeriods == {"Hourly", "HalfDay", "Daily", "Weekly", "Monthly", "Yearly"}

\* impl Display for ReleasePeriod
ReleasePeriod_fmt(self) ==
    CASE self = "Hourly"  -> <<"0", "1", "H">>
      [] self = "HalfDay" -> <<"1", "2", "H">>
      [] self = "Daily"   -> <<"0", "1", "D">>
      [] self = "Weekly"  -> <<"0", "1", "W">>
      [] self = "Monthly" -> <<"0", "1", "L">>
      [] OTHER -> <<"0", "1", "Y">>

\* impl FromStr for ReleasePeriod
ReleasePeriod_from_str(s) ==
    IF \E p \in ReleasePeriods : ReleasePeriod_fmt(p) = s
    THEN Ok(CHOOSE p \in ReleasePeriods : ReleasePeriod_fmt(p) = s)
    ELSE Err("InvalidFilename")

U16Max == 2^16 - 1

\* the seconds one sampling unit stands for (the match on s[29..30])
UnitScaling(u) ==
    CASE u = <<"S">> -> 1
      [] u = <<"M">> -> 60
      [] u = <<"H">> -> 3600
      [] u = <<"D">> -> 24 * 3600
      [] u = <<"W">> -> 7 * 24 * 3600
      [] u = <<"L">> -> 30 * 7 * 24 * 3600
      [] OTHER -> 365 * 7 * 24 * 3600

EndsWith(s, p) == Len(s) >= Len(p) /\ SubSeq(s, Len(s) - Len(p) + 1, Len(s)) = p

\* (sampling_period.to_seconds() / 60.0).round() as u16
SamplingMinutes(period) == Min((period.s + 30) \div 60, U16Max)

\* impl FromStr for ProductionAttributes
ProductionAttributes_from_str(s) ==
    IF Len(s) < 38 THEN Err("InvalidFilename")
    ELSE
    LET batch_id       == ParseUIntMax(Slice(s, 3, 4), U8Max)
        campaign       == Campaign_from_str(Slice(s, 4, 7))
        availability   == Availability_from_str(Slice(s, 7, 10))
        release_year   == ParseUIntMax(Slice(s, 11, 15), U16Max)
        release_doy    == ParseUIntMax(Slice(s, 15, 18), U16Max)
        release_period == ReleasePeriod_from_str(Slice(s, 23, 26))
        sampling       == ParseUIntMax(Slice(s, 27, 29), U8Max)
        scaling        == UnitScaling(Slice(s, 29, 30))
    IN  IF ~batch_id.ok THEN Err("InvalidFilename")
        ELSE IF ~campaign.ok THEN campaign
        ELSE IF ~availability.ok THEN Err("InvalidFilename")
        ELSE IF ~release_year.ok \/ ~release_doy.ok THEN Err("InvalidFilename")
        ELSE IF ~release_period.ok THEN release_period
        ELSE IF ~sampling.ok THEN Err("InvalidFilename")
        ELSE Ok([ agency |-> Slice(s, 0, 3),
                  batch_id |-> batch_id.v,
                  campaign |-> campaign.v,
                  availability |-> availability.v,
                  release_date |-> [year |-> release_year.v, doy |-> release_doy.v],
                  release_period |-> release_period.v,
                  sampling_period |-> Nanos(sampling.v * scaling, 0),
                  gzip_compressed |-> EndsWith(s, <<".", "g", "z">>) ])

\* impl Display for ProductionAttributes
ProductionAttributes_fmt(self) ==
    Slice(self.agency, 0, 3) \o Digits(self.batch_id) \o Campaign_fmt(self.campaign)
    \o Availability_fmt(self.availability) \o <<"_">>
    \o ZeroPad(self.release_date.year, 4) \o ZeroPad(self.release_date.doy, 3)
    \o <<"0", "0", "0", "0">> \o <<"_">> \o ReleasePeriod_fmt(self.release_period) \o <<"_">>
    \o ZeroPad(SamplingMinutes(self.sampling_period), 2) \o <<"M", "_", "O", "R", "B", ".", "S", "P", "3">>
    \o (IF self.gzip_compressed THEN <<".", "g", "z">> ELSE <<>>)

(***************************************************************************)
(* File names: those of the standardized grammar, built field by field,    *)
(* and names one field away from it.  ProductionAttributes::from_str reads *)
(* a name and the attributes read are written again.                       *)
(***************************************************************************)
NameAgencies == {<<"E", "S", "A">>}
NameBatches == {<<"0">>, <<"5">>}
NameCampaigns == {<<"O", "P", "S">>, <<"T", "S", "T">>, <<"R", "0", "1">>}
NameAvailabilities == {<<"R", "A", "P">>, <<"F", "I", "N">>}
NameYears == {<<"2", "0", "2", "3">>}
NameDays == {<<"0", "0", "1">>, <<"2", "3", "9">>}
NameHours == {<<"0", "0", "0", "0">>, <<"1", "2", "0", "0">>}
NamePeriods == {<<"0", "1", "D">>, <<"0", "1", "H">>}
NameCounts == {<<"0", "1">>, <<"0", "5">>, <<"1", "5">>}
NameUnits == {<<"S">>, <<"M">>, <<"H">>, <<"D">>, <<"W">>, <<"L">>, <<"Y">>}
NameExtensions == {<<>>, <<".", "g", "z">>}

\* count and unit; the longest periods stay within the integers of the model
NameSamplings ==
    { cu \in NameCounts \X NameUnits : cu[2] = <<"Y">> => cu[1] # <<"1", "5">> }

FileName(a, b, c, d, y, doy, hm, p, nn, u, ext) ==
    a \o b \o c \o d \o <<"_">> \o y \o doy \o hm \o <<"_">> \o p \o <<"_">> \o nn \o u
    \o <<"_", "O", "R", "B", ".", "S", "P", "3">> \o ext

GrammarNames ==
    { FileName(a, b, c, d, y, doy, hm, p, cu[1], cu[2], ext) :
        a \in NameAgencies, b \in NameBatches, c \in NameCampaigns, d \in NameAvailabilities,
        y \in NameYears, doy \in NameDays, hm \in NameHours, p \in NamePeriods,
        cu \in NameSamplings, ext \in NameExtensions }

\* s with the characters from column i (0-based) on replaced by those of w
ReplaceAt(s, i, w) == SubSeq(s, 1, i) \o w \o SubSeq(s, i + Len(w) + 1, Len(s))

BaseNames ==
    { FileName(<<"E", "S", "A">>, <<"0">>, <<"O", "P", "S">>, <<"R", "A", "P">>, <<"2", "0", "2", "3">>, <<"2", "3", "9">>, <<"0", "0", "0", "0">>, <<"0", "1", "D">>, <<"0", "5">>, <<"M">>, ext) :
        ext \in NameExtensions }

MaxMutation == 13

\* a name one field away from the grammar
Mutated(s, k) ==
    CASE k = 1  -> Tail(s)
      [] k = 2  -> ReplaceAt(s, 10, <<"-">>)
      [] k = 3  -> ReplaceAt(s, 31, <<"C", "L", "K">>)
      [] k = 4  -> ReplaceAt(s, 3, <<"X">>)
      [] k = 5  -> ReplaceAt(s, 11, <<"2", "0", "X", "3">>)
      [] k = 6  -> ReplaceAt(s, 15, <<"2", "X", "9">>)
      [] k = 7  -> ReplaceAt(s, 27, <<"1", "X">>)
      [] k = 8  -> ReplaceAt(s, 29, <<"X">>)
      [] k = 9  -> SubSeq(s, 1, 38) \o <<"x">> \o SubSeq(s, 39, Len(s))
      [] k = 10 -> ReplaceAt(s, 18, <<"A", "B", "0", "0">>)
      [] k = 11 -> ReplaceAt(s, 4, <<"X", "X", "X">>)
      [] k = 12 -> ReplaceAt(s, 7, <<"X", "X", "X">>)
      [] OTHER  -> ReplaceAt(s, 23, <<"0", "2", "D">>)

MalformedNames == { Mutated(s, k) : s \in BaseNames, k \in 1..MaxMutation }

\* the standardized grammar: AAABCCCDDD_YYYYDDDHHMM_PPP_NNU_ORB.SP3[.gz]
MatchesGrammar(s) ==
    /\ Len(s) = 38 \/ (Len(s) = 41 /\ SliceFrom(s, 38) = <<".", "g", "z">>)
    /\ IsDigit(s[4])
    /\ \/ Slice(s, 4, 7) \in {<<"O", "P", "S">>, <<"M", "G", "X">>, <<"D", "E", "M">>, <<"T", "G", "A">>, <<"T", "S", "T">>}
       \/ s[5] = "R" /\ AllDigits(Slice(s, 5, 7))
    /\ Slice(s, 7, 10) \in {<<"R", "A", "P">>, <<"F", "I", "N">>, <<"U", "L", "T">>}
    /\ s[11] = "_" /\ s[23] = "_" /\ s[27] = "_" /\ s[31] = "_"
    /\ AllDigits(Slice(s, 11, 22))
    /\ Slice(s, 23, 26) \in {<<"0", "1", "H">>, <<"1", "2", "H">>, <<"0", "1", "D">>, <<"0", "1", "W">>, <<"0", "1", "L">>, <<"0", "1", "Y">>}
    /\ AllDigits(Slice(s, 27, 29))
    /\ Slice(s, 29, 30) \in NameUnits
    /\ Slice(s, 31, 38) = <<"O", "R", "B", ".", "S", "P", "3">>

InitNames ==
    /\ sp3 = DefaultSP3
    /\ other = DefaultSP3
    /\ ret = NoRet
    /\ nops = 0
    /\ rd = IdleReader
    /\ seen = NoLine

\* ProductionAttributes::from_str(name), then to_string() of the attributes
DoParseName ==
    /\ nops = 0
    /\ \E name \in GrammarNames \cup MalformedNames :
          LET attrs == ProductionAttributes_from_str(name)
          IN  ret' = Ret("ProductionAttributes::from_str", name, None,
                         [parsed |-> attrs,
                          formatted |-> IF attrs.ok THEN ProductionAttributes_fmt(attrs.v)
                                        ELSE <<>>])
    /\ nops' = nops + 1
    /\ UNCHANGED <<sp3, other, rd, seen>>

NextNames ==
    \/ DoParseName

SpecNames == InitNames /\ [][NextNames]_vars

\* C22: the attributes read from a file name of the standardized grammar,
\* whatever its sampling unit, campaign and extension, are written as that
\* same file name.
C22_NameRoundTrip ==
    ( ret.op = "ProductionAttributes::from_str" /\ MatchesGrammar(ret.self) ) =>
        /\ ret.out.parsed.ok
        /\ ret.out.formatted = ret.self

\* C23: ProductionAttributes::from_str returns Ok for the names of the
\* standardized grammar and an error for every other string.
C23_OnlyGrammarAccepted ==
    ret.op = "ProductionAttributes::from_str" =>
        (ret.out.parsed.ok <=> MatchesGrammar(ret.self))

(***************************************************************************)
(* SP3::standardized_filename on records read from a file: the header is   *)
(* that of the text, the production attributes are those of the file name  *)
(* when from_file could read them.                                         *)
(***************************************************************************)
\* release_epoch.day_of_year() as u16 (hifitime counts from day 1)
DayOfYear(e) == DaysBefore[e.m] + e.d

\* SP3::standardized_filename
Standardized_filename(self) ==
    IF Len(self.header.agency) < 3 THEN Panic
    ELSE
    LET attributes == self.prod_attributes
        has        == IsSome(attributes)
        batch_id   == IF has THEN Unwrap(attributes).batch_id ELSE 0
        campaign   == IF has THEN Unwrap(attributes).campaign ELSE DefaultCampaign
        avail      == IF has THEN Unwrap(attributes).availability ELSE DefaultAvailability
        release_period == IF has THEN Unwrap(attributes).release_period ELSE DefaultReleasePeriod
        agency     == IF has THEN Unwrap(attributes).agency ELSE Slice(self.header.agency, 0, 3)
        extension  == IF has THEN <<".", "g", "z">> ELSE <<>>
        year       == self.header.release_epoch.y
        doy        == DayOfYear(self.header.release_epoch)
        doy_padding == IF doy < 100 THEN <<"0", "0", "0", "0", "0">> ELSE <<"0", "0", "0", "0">>
        sampling_period_mins == SamplingMinutes(self.header.sampling_period)
    IN  Ok(agency \o Digits(batch_id) \o Campaign_fmt(campaign) \o Availability_fmt(avail)
           \o <<"_">> \o Digits(year) \o ZeroPad(doy, 3) \o doy_padding \o <<"_">>
           \o ReleasePeriod_fmt(release_period) \o <<"_">>
           \o ZeroPad(sampling_period_mins, 2) \o <<"M", "_", "O", "R", "B", ".", "S", "P", "3">> \o extension)

\* month and day of the release epochs: days 1, 50, 100, 239 and 365 of the year
ReleaseDays == {<<1, 1>>, <<2, 19>>, <<4, 10>>, <<8, 27>>, <<12, 31>>}

FileStores ==
    { [DefaultSP3 EXCEPT !.header =
          [BaseHeader EXCEPT !.agency = a,
                             !.release_epoch = [@ EXCEPT !.y = 2023, !.m = md[1], !.d = md[2]],
                             !.sampling_period = Nanos(mins * 60, 0)]] :
        a \in {Txt_IGS, Txt_IGS14}, md \in ReleaseDays, mins \in {5, 15} }

\* the names of the files read
OnDiskNames ==
    { n \in GrammarNames \cup MalformedNames :
        /\ Slice(n, 3, 10) = <<"0", "O", "P", "S", "R", "A", "P">>
        /\ Slice(n, 18, 26) = <<"0", "0", "0", "0", "_", "0", "1", "D">>
        /\ Slice(n, 27, 30) \in {<<"0", "5", "M">>, <<"1", "5", "M">>, <<"0", "5", "S">>} }

InitFiles ==
    /\ sp3 \in FileStores
    /\ other = DefaultSP3
    /\ ret = NoRet
    /\ nops = 0
    /\ rd = IdleReader
    /\ seen = NoLine

\* SP3::from_file / from_gzip_file once from_reader has returned the record
DoFromFile ==
    /\ nops = 0 /\ ret.op = "none"
    /\ \E name \in OnDiskNames :
          LET attributes == ProductionAttributes_from_str(name)
          IN  sp3' = IF attributes.ok THEN [sp3 EXCEPT !.prod_attributes = Some(attributes.v)]
                     ELSE sp3
    /\ nops' = nops + 1
    /\ UNCHANGED <<other, ret, rd, seen>>

\* sp3.standardized_filename()
DoStandardizedFilename ==
    /\ ret.op = "none"
    /\ ret' = Ret("standardized_filename", sp3, None, Standardized_filename(sp3))
    /\ UNCHANGED <<sp3, other, nops, rd, seen>>

NextFiles ==
    \/ DoFromFile
    \/ DoStandardizedFilename

SpecFiles == InitFiles /\ [][NextFiles]_vars

\* the record was read from the file named n: attributes, release day and
\* sampling period of the header are those of the name
ReadFromFileNamed(self, n) ==
    /\ ProductionAttributes_from_str(n).ok
    /\ self.prod_attributes = Some(ProductionAttributes_from_str(n).v)
    /\ self.header.release_epoch.y = Unwrap(self.prod_attributes).release_date.year
    /\ DayOfYear(self.header.release_epoch) = Unwrap(self.prod_attributes).release_date.doy
    /\ self.header.sampling_period = Unwrap(self.prod_attributes).sampling_period

\* C24: with an agency of three characters or more, standardized_filename
\* returns a name of the standardized grammar whatever the release day of
\* year, a name ProductionAttributes::from_str accepts; for a record read
\* from a standard-named file with HHMM = 0000 and a sampling period in
\* minutes it returns the name of that file.
C24_StandardizedFilename ==
    ( ret.op = "standardized_filename" /\ Len(ret.self.header.agency) >= 3 ) =>
        /\ ret.out.ok
        /\ MatchesGrammar(ret.out.v)
        /\ ProductionAttributes_from_str(ret.out.v).ok
        /\ \A n \in OnDiskNames :
              ( /\ MatchesGrammar(n)
                /\ Slice(n, 18, 22) = <<"0", "0", "0", "0">>
                /\ n[30] = "M"
                /\ ReadFromFileNamed(ret.self, n) ) => ret.out.v = n

(***************************************************************************)
(* CoordsFormatter::coordinates on values below 10^7 in magnitude          *)
(***************************************************************************)
CoordValues ==
    { Norm(F64(neg, hi, lo, e)) :
        neg \in BOOLEAN, hi \in {0, 1, 22335, 100000, 999999},
        lo \in {0, 5, 499999, 782004, 999999}, e \in {-7, -6, -5} }

\* the number of digits of the mantissa
MantissaDigits(v) == IF v.hi = 0 THEN Len(Digits(v.lo)) ELSE Len(Digits(v.hi)) + 6

\* |v| < 10^k
MagnitudeBelow(v, k) == v = Zero \/ MantissaDigits(v) + v.e <= k

InitCoords ==
    /\ sp3 = DefaultSP3
    /\ other = DefaultSP3
    /\ ret = NoRet
    /\ nops = 0
    /\ rd = IdleReader
    /\ seen = NoLine

\* format!("{}", CoordsFormatter::coordinates(value))
DoCoordinates ==
    /\ nops < MaxOps
    /\ \E value \in CoordValues :
          ret' = Ret("CoordsFormatter::coordinates", value, None, Coordinates(value))
    /\ nops' = nops + 1
    /\ UNCHANGED <<sp3, other, rd, seen>>

NextCoords ==
    \/ DoCoordinates

SpecCoords == InitCoords /\ [][NextCoords]_vars

\* C25: a value below 10^7 in magnitude, of either sign, is written in
\* exactly 14 characters, the last six of them the fractional digits.
C25_FourteenColumns ==
    ( ret.op = "CoordsFormatter::coordinates" /\ MagnitudeBelow(ret.self, 7) ) =>
        /\ Len(ret.out) = 14
        /\ ret.out[8] = "."
        /\ AllDigits(SliceFrom(ret.out, 8))

(***************************************************************************)
(* The merge of two records whose headers differ in their time references  *)
(***************************************************************************)
MergeHeaders ==
    { [BaseHeader EXCEPT !.agency = a, !.week = w, !.week_nanos = wn, !.mjd = m,
                         !.mjd_fraction = f] :
        a \in {Txt_IGS, Txt_IGS14}, w \in {1, 2}, wn \in {Nanos(0, 0), Nanos(900, 0)},
        m \in {15020, 15021}, f \in {Zero, Norm(F64(FALSE, 0, 25, -2))} }

InitMerge ==
    /\ sp3 \in {[DefaultSP3 EXCEPT !.header = h] : h \in MergeHeaders}
    /\ other \in {[DefaultSP3 EXCEPT !.header = h] : h \in MergeHeaders}
    /\ ret = NoRet
    /\ nops = 0
    /\ rd = IdleReader
    /\ seen = NoLine

\* sp3.merge_mut(&other), once
DoMergeHeaders ==
    /\ nops = 0
    /\ sp3' = Merge_mut(sp3, other)
    /\ ret' = Ret("merge_mut", sp3, other, HeaderMergeError(sp3.header, other.header))
    /\ nops' = nops + 1
    /\ UNCHANGED <<other, rd, seen>>

NextMerge ==
    \/ DoMergeHeaders

SpecMerge == InitMerge /\ [][NextMerge]_vars

\* a < b for two fractions of a day (both non-negative)
FractionLess(a, b) ==
    LET e == Min(a.e, b.e) IN MagLess(ShiftTo(a, e), ShiftTo(b, e))

\* header a has the earlier (week, time of week) than header b
EarlierWeek(a, b) == a.week < b.week \/ (a.week = b.week /\ NanosLess(a.week_nanos, b.week_nanos))

\* header a has the earlier (MJD, fraction of day) than header b
EarlierMjd(a, b) == a.mjd < b.mjd \/ (a.mjd = b.mjd /\ FractionLess(a.mjd_fraction, b.mjd_fraction))

\* C26: after a successful merge the header of lhs carries the week and time
\* of week of whichever header had the earlier pair, also within one week,
\* and the MJD and fraction of whichever header had the earlier MJD.
C26_EarlierTimeReference ==
    ( ret.op = "merge_mut" /\ ret.out = "Ok" ) =>
        LET l == ret.self.header
            r == ret.rhs.header
            w == IF EarlierWeek(r, l) THEN r ELSE l
            m == IF EarlierMjd(r, l) THEN r ELSE l
        IN  /\ sp3.header.week = w.week /\ sp3.header.week_nanos = w.week_nanos
            /\ sp3.header.mjd = m.mjd /\ sp3.header.mjd_fraction = m.mjd_fraction

(***************************************************************************)
(* nyx.rs: spatial_prediction_mut.  What the propagator does is outside    *)
(* the repository: whether SolarPressure::new succeeds, whether a          *)
(* propagation succeeds, whether the trajectory has a state at an epoch,   *)
(* and the state it has, are choices of the environment.                   *)
(***************************************************************************)
\* SP3::last_epoch: self.epochs_iter().last()
Last_epoch(self) ==
    LET es == Epochs_iter(self) IN IF es = <<>> THEN None ELSE Some(es[Len(es)])

\* Orbit::has_velocity_dynamics on the orbit satellites_orbit_iter builds:
\* a missing velocity is the null vector
Has_velocity_dynamics(entry) ==
    IsSome(entry.velocity_km_s) /\ Unwrap(entry.velocity_km_s) # ZeroVec

\* SP3::spacecraft_model_iter: the satellites with a model at the epoch
Spacecraft_model_iter(self, epoch) ==
    LET HasModel(k) == Has_velocity_dynamics(self.data[k]) /\ EpochEq(k.epoch, epoch)
        ks == SelectSeq(KeysIter(self.data), HasModel)
    IN  [i \in 1..Len(ks) |-> ks[i].sv]

\* a Duration in ticks
DurationTicks(d) == d.s * TicksPerSecond + d.ns \div (10^9 \div TicksPerSecond)

\* TimeSeries::inclusive(start, end, step)
TimeSeries_inclusive(start, end, step) ==
    IF Tai(end) < Tai(start) THEN <<>>
    ELSE [i \in 1..((Tai(end) - Tai(start)) \div step + 1) |->
             Epoch(start.ts, start.t + (i - 1) * step)]

\* self.data.insert(key, value) for each epoch of the series, for one satellite
RECURSIVE InsertSeries(_, _, _, _)
InsertSeries(data, sv, series, value) ==
    IF series = <<>> THEN data
    ELSE InsertSeries(Insert(data, SP3Key(sv, Head(series)), value), sv, Tail(series), value)

\* the loop over the trajectories
RECURSIVE ExpandWith(_, _, _, _)
ExpandWith(data, svs, series, value) ==
    IF svs = <<>> THEN data
    ELSE ExpandWith(InsertSeries(data, Head(svs), series, value), Tail(svs), series, value)

\* SP3::spatial_prediction_mut: the store after the call and what is returned;
\* duration in ticks, env the choices of the environment
Spatial_prediction_mut(self, initial_epoch, duration, env) ==
    LET sampling_period == DurationTicks(self.header.sampling_period)
        initial    == IF IsSome(initial_epoch) THEN initial_epoch ELSE Last_epoch(self)
        t0         == Unwrap(initial)
        last_epoch == Epoch(t0.ts, t0.t + duration)
        new_epochs == IF duration <= 0 THEN 0
                      ELSE (2 * duration + sampling_period) \div (2 * sampling_period)
        satellites == IF env.propagated THEN Spacecraft_model_iter(self, t0) ELSE <<>>
        timeserie  == IF duration < 0
                      THEN TimeSeries_inclusive(last_epoch, t0, sampling_period)
                      ELSE TimeSeries_inclusive(t0, last_epoch, sampling_period)
        value      == With_velocity_km_s(From_predicted_position_km(env.state[1]), env.state[2])
        expanded   == IF env.at THEN ExpandWith(self.data, satellites, timeserie, value)
                      ELSE self.data
    IN  IF IsNone(initial) THEN <<self, Err("UndeterminedInitialState")>>
        ELSE IF ~env.srp THEN <<self, Err("NyxDynamics")>>
        ELSE << [self EXCEPT !.data = expanded,
                             !.header.num_epochs = @ + new_epochs], Ok(<<>>) >>

\* what the environment may answer
PredictionEnvs ==
    [srp : BOOLEAN, propagated : BOOLEAN, at : BOOLEAN, state : {<<PosA, VelA>>}]

\* durations asked for, in ticks: one or two sampling periods ahead, one back
PredictionSpans == {TicksPerSecond, 2 * TicksPerSecond, -TicksPerSecond}

InitPrediction ==
    /\ sp3 \in DynStores
    /\ other = DefaultSP3
    /\ ret = NoRet
    /\ nops = 0
    /\ rd = IdleReader
    /\ seen = NoLine

\* sp3.spatial_prediction_mut(almanac, frame, initial_epoch, duration), once
DoSpatialPrediction ==
    /\ nops = 0
    /\ \E initial_epoch \in {None} \cup {Some(e) : e \in DynEpochs},
          duration \in PredictionSpans, env \in PredictionEnvs :
          LET r == Spatial_prediction_mut(sp3, initial_epoch, duration, env)
          IN  /\ sp3' = r[1]
              /\ ret' = Ret("spatial_prediction_mut", sp3,
                            [initial_epoch |-> initial_epoch, duration |-> duration], r[2])
    /\ nops' = nops + 1
    /\ UNCHANGED <<other, rd, seen>>

NextPrediction ==
    \/ DoSpatialPrediction

SpecPrediction == InitPrediction /\ [][NextPrediction]_vars

\* the epoch the prediction starts from: the one given, else the last epoch
InitialEpochOf(self, initial_epoch) ==
    IF IsSome(initial_epoch) THEN initial_epoch ELSE Last_epoch(self)

\* no entry of the store at the epoch carries a velocity
NoVelocityAt(self, epoch) ==
    \A k \in DOMAIN self.data : EpochEq(k.epoch, epoch) => IsNone(self.data[k].velocity_km_s)

\* C27: on a non-empty record whose entries at the initial epoch (the last
\* epoch when none is given) carry no velocity, spatial_prediction_mut returns
\* an error and leaves header and data as they were.
C27_PredictionNeedsVelocity ==
    ( /\ ret.op = "spatial_prediction_mut"
      /\ DOMAIN ret.self.data # {}
      /\ NoVelocityAt(ret.self, Unwrap(InitialEpochOf(ret.self, ret.rhs.initial_epoch))) ) =>
        /\ ~ret.out.ok
        /\ sp3 = ret.self

(***************************************************************************)
(* The body of a file: from_reader has taken H1, H2 and the two %c lines   *)
(* of a well-formed header; the lines after them are of every kind.        *)
(***************************************************************************)
\* the reader after the four header lines
BodyReader == ReadLines(NewReader, Header_format(BaseHeader))

\* a header of another agency and week, whose H1 and H2 may come again
LaterHeader == [BaseHeader EXCEPT !.agency = <<"C", "O", "D">>, !.week = 2, !.num_epochs = 9]

LaterLines ==
    { <<"#", " ", "n", "o", "t", "e">>,
      <<"#", "#", " ", "n", "o", "t", "e">>,
      <<"%", "c", " ", "n", "o", "t", "e">>,
      <<"%", "f", " ", " ", "1", ".", "2", "5", "0", "0", "0", "0", "0", " ", " ", "1", ".", "0", "2", "5", "0", "0", "0", "0", "0", "0", " ", " ", "0", ".", "0", "0", "0", "0", "0", "0", "0", "0", "0", "0", "0", " ", " ", "0", ".", "0", "0", "0", "0", "0", "0", "0", "0", "0", "0", "0", "0", "0", "0", "0">>,
      <<"%", "i", " ", " ", " ", " ", "0", " ", " ", " ", " ", "0", " ", " ", " ", " ", "0", " ", " ", " ", " ", "0", " ", " ", " ", " ", " ", " ", "0", " ", " ", " ", " ", " ", " ", "0", " ", " ", " ", " ", " ", " ", "0", " ", " ", " ", " ", " ", " ", "0", " ", " ", " ", " ", " ", " ", " ", " ", " ", "0">>,
      <<"+", " ", " ", " ", " ", "2", " ", " ", " ", "G", "0", "1", "G", "0", "2", " ", " ", "0", " ", " ", "0", " ", " ", "0", " ", " ", "0", " ", " ", "0", " ", " ", "0", " ", " ", "0", " ", " ", "0", " ", " ", "0", " ", " ", "0", " ", " ", "0", " ", " ", "0", " ", " ", "0", " ", " ", "0", " ", " ", "0">>,
      <<"+", "+", " ", " ", " ", " ", " ", " ", " ", " ", " ", "7", " ", " ", "8", " ", " ", "0", " ", " ", "0", " ", " ", "0", " ", " ", "0", " ", " ", "0", " ", " ", "0", " ", " ", "0", " ", " ", "0", " ", " ", "0", " ", " ", "0", " ", " ", "0", " ", " ", "0", " ", " ", "0", " ", " ", "0", " ", " ", "0">>,
      CommentLineOf(CommentA), EofLine,
      EpochMarker(Epoch("GPST", 0)),
      DataLine("P", SVTable[1], PosA, Coordinates(ClockA), NoFlags),
      DataLine("V", SVTable[1], VelA_dm_s, Coordinates(DriftA), NoFlags) }
    \cup { Header_format(LaterHeader)[i] : i \in 1..4 }

InitBody ==
    /\ sp3 = DefaultSP3
    /\ other = DefaultSP3
    /\ ret = NoRet
    /\ nops = 0
    /\ rd = BodyReader
    /\ seen = NoLine

\* the loop body on the next line of the input
ReadLaterLine ==
    /\ rd.status = "reading"
    /\ nops < MaxLines
    /\ \E l \in LaterLines :
          /\ rd' = ReadLine(rd, l)
          /\ seen' = Line(l, rd)
    /\ nops' = nops + 1
    /\ UNCHANGED <<sp3, other, ret>>

\* the loop is left and from_reader returns
BodyReturn ==
    /\ rd.status \in {"reading", "eof", "error"}
    /\ ret' = Ret("parse", None, None, ReaderResult(rd))
    /\ sp3' = IF ReaderResult(rd).ok THEN ReaderResult(rd).v ELSE sp3
    /\ rd' = [rd EXCEPT !.status = IF @ = "error" THEN "failed" ELSE "returned"]
    /\ UNCHANGED <<other, nops, seen>>

NextBody ==
    \/ ReadLaterLine
    \/ BodyReturn

SpecBody == InitBody /\ [][NextBody]_vars

\* the reader, past the header, took a line that is no comment, no epoch
\* marker, no P-line, no V-line and not EOF
SeenUnrecognised ==
    /\ seen.kind = "line"
    /\ seen.before.status = "reading"
    /\ seen.before.pc_count >= 2
    /\ ~sp3_comment(SeenLine) /\ ~end_of_file(SeenLine) /\ ~new_epoch(SeenLine)
    /\ ~position_entry(SeenLine) /\ ~velocity_entry(SeenLine)

\* C28: past H1, H2 and the two %c lines, a line that is no comment, epoch
\* marker, P-line, V-line or EOF (a line starting with '#' or '%c' included)
\* is skipped: no error is raised, and header, comments and entries stay as
\* they were.
C28_UnrecognisedSkipped ==
    ( SeenUnrecognised /\ rd.status \in {"reading", "error", "panic"} ) =>
        /\ rd.status = "reading"
        /\ rd.header = seen.before.header
        /\ rd.comments = seen.before.comments
        /\ rd.data = seen.before.data

(***************************************************************************)
(* lib.rs: has_steady_sampling, on stores of one or two satellites whose   *)
(* header states a sampling period of one or two ticks.                    *)
(***************************************************************************)
\* now - past_t != dt
DiffersFrom(now, past_t, dt) ==
    \/ Tai(now) - Tai(past_t) # DurationTicks(dt)
    \/ dt.ns % (10^9 \div TicksPerSecond) # 0

\* the loop of has_steady_sampling over the epochs left, with its locals
RECURSIVE SteadyWalk(_, _, _, _)
SteadyWalk(es, t, past_t, dt) ==
    IF es = <<>> THEN TRUE
    ELSE LET now == Head(es)
         IN  IF EpochLess(t, now)
             THEN IF IsSome(past_t) /\ DiffersFrom(now, Unwrap(past_t), dt) THEN FALSE
                  ELSE SteadyWalk(Tail(es), now, Some(now), dt)
             ELSE SteadyWalk(Tail(es), t, Some(now), dt)

\* SP3::has_steady_sampling
Has_steady_sampling(self) ==
    SteadyWalk(Epochs_iter(self), DefaultEpoch, None, self.header.sampling_period)

SamplingPeriods == {Nanos(0, 10^9 \div TicksPerSecond), Nanos(1, 0)}

InitSampling ==
    /\ sp3 \in {[s EXCEPT !.header.sampling_period = p] : s \in DynStores, p \in SamplingPeriods}
    /\ other = DefaultSP3
    /\ ret = NoRet
    /\ nops = 0
    /\ rd = IdleReader
    /\ seen = NoLine

\* sp3.has_steady_sampling()
DoHasSteadySampling ==
    /\ ret.op = "none"
    /\ ret' = Ret("has_steady_sampling", sp3, None, Has_steady_sampling(sp3))
    /\ nops' = nops + 1
    /\ UNCHANGED <<sp3, other, rd, seen>>

NextSampling ==
    \/ DoHasSteadySampling

SpecSampling == InitSampling /\ [][NextSampling]_vars

\* the instants of the store, each once
InstantsOf(self) == {Tai(k.epoch) : k \in DOMAIN self.data}

\* in ascending order, two consecutive instants are one sampling period apart
SteadyAscending(self) ==
    LET T  == InstantsOf(self)
        dt == DurationTicks(self.header.sampling_period)
    IN  \A a \in T : (\E b \in T : a < b) =>
            /\ a + dt \in T
            /\ \A b \in T : ~(a < b /\ b < a + dt)

\* C29: has_steady_sampling is true exactly when, in the ascending sequence
\* of the distinct epochs of the store, two consecutive epochs always differ
\* by header.sampling_period, whichever of them each satellite covers.
C29_SteadySampling ==
    ret.op = "has_steady_sampling" => (ret.out <=> SteadyAscending(ret.self))

(***************************************************************************)
(* processing/timeshift.rs: precise_correction_mut.  The stores are dated  *)
(* in the first week of 1900 (MJD 15020), in UTC or TAI, which hold the    *)
(* same reading before the first leap second.  The corrections database is *)
(* the caller's: one correction towards a time scale, valid over a window  *)
(* of instants, with a constant offset.                                    *)
(***************************************************************************)
TicksPerWeek == 604800 * TicksPerSecond

\* Epoch::from_time_of_week(week, nanoseconds, time_scale)
From_time_of_week(week, nanos, ts) ==
    Epoch(ts, week * TicksPerWeek + DurationTicks(nanos))

\* Epoch::to_time_of_week
To_time_of_week(e) ==
    LET left == e.t % TicksPerWeek
    IN  << e.t \div TicksPerWeek,
           Nanos(left \div TicksPerSecond, (left % TicksPerSecond) * (10^9 \div TicksPerSecond)) >>

\* db.precise_epoch_correction(epoch, rhs)
Precise_epoch_correction(db, epoch, rhs) ==
    IF db.ts = rhs /\ db.from <= Tai(epoch) /\ Tai(epoch) <= db.to
    THEN Some(Epoch(rhs, Tai(epoch) + db.offset - TaiOffsetSeconds(rhs) * TicksPerSecond))
    ELSE None

\* days = mjd + mjd_fraction read in UTC or TAI and written back as UTC days,
\* then split by floor() and fract(): for a fraction in [0, 1) that the sum
\* holds exactly, and a date without leap seconds, the two parts themselves
Transposed_mjd(header) == <<header.mjd, header.mjd_fraction>>

\* the map precise_correction_mut builds: every entry under its corrected
\* key, a later key of the walk replacing an earlier one on the same new key
CorrectedData(data, db, rhs) ==
    LET NewKey(k) == SP3Key(k.sv, Unwrap(Precise_epoch_correction(db, k.epoch, rhs)))
        new_keys  == {NewKey(k) : k \in DOMAIN data}
        LastOf(n) == CHOOSE k \in DOMAIN data :
                        /\ NewKey(k) = n
                        /\ \A j \in DOMAIN data : NewKey(j) = n => ~SP3KeyLess(k, j)
    IN  [n \in new_keys |-> data[LastOf(n)]]

\* <SP3 as Timeshift>::precise_correction_mut: the store it leaves and its result
Precise_correction_mut(self, db, timescale) ==
    LET lhs        == self.header.timescale
        rhs        == timescale
        epoch      == From_time_of_week(self.header.week, self.header.week_nanos, lhs)
        transposed == Precise_epoch_correction(db, epoch, rhs)
        tow        == To_time_of_week(Unwrap(transposed))
        days       == Transposed_mjd(self.header)
        header     == [self.header EXCEPT !.week = tow[1], !.week_nanos = tow[2],
                                          !.mjd = days[1], !.mjd_fraction = days[2],
                                          !.timescale = rhs]
        missing    == \E k \in DOMAIN self.data :
                          IsNone(Precise_epoch_correction(db, k.epoch, rhs))
    IN  IF IsNone(transposed) THEN <<self, Err("NoCorrectionAvailable")>>
        ELSE IF missing THEN <<[self EXCEPT !.header = header], Err("NoCorrectionAvailable")>>
        ELSE <<[self EXCEPT !.header = header,
                            !.data = CorrectedData(self.data, db, rhs)], Ok(<<>>)>>

ShiftScales == {"UTC", "TAI"}
ShiftKeys(ts) == {SP3Key(SVTable[i], Epoch(ts, t)) : i \in 1..Min(NumSV, 2), t \in 0..MaxDynTick}
ShiftEntry(k) ==
    IF k.sv = SVTable[1] THEN SP3Entry(PosA, None, FALSE, FALSE, FALSE, FALSE, Some(ClockA), None)
    ELSE SP3Entry(PosB, Some(VelB), FALSE, FALSE, FALSE, FALSE, Some(ClockB), Some(Micro(-2)))

\* stores of at most MaxDynEntries entries, the header reference epoch on
\* the first or on the last epoch of the grid
ShiftStoresIn(ts) ==
    { [header |-> [BaseHeader EXCEPT !.timescale = ts, !.week = 0,
                                     !.week_nanos = Nanos(w \div TicksPerSecond, 0)],
       comments |-> <<>>, prod_attributes |-> None,
       data |-> [k \in K |-> ShiftEntry(k)]] :
        w \in {0, TicksPerSecond * (MaxDynTick \div TicksPerSecond)},
        K \in {X \in SUBSET ShiftKeys(ts) : Cardinality(X) <= MaxDynEntries} }

ShiftStores == UNION {ShiftStoresIn(ts) : ts \in ShiftScales}

\* the databases: no correction at all, or one correction over a window
CorrectionDBs ==
    { [ts |-> ts, from |-> a, to |-> b, offset |-> o] :
        ts \in ShiftScales, a \in 0..MaxDynTick, b \in -1..MaxDynTick, o \in {0, 1} }

InitShift ==
    /\ sp3 \in ShiftStores
    /\ other = DefaultSP3
    /\ ret = NoRet
    /\ nops = 0
    /\ rd = IdleReader
    /\ seen = NoLine

\* sp3.precise_correction_mut(&db, timescale), once
DoPreciseCorrection ==
    /\ nops = 0
    /\ \E db \in CorrectionDBs, timescale \in ShiftScales :
          LET r == Precise_correction_mut(sp3, db, timescale)
          IN  /\ sp3' = r[1]
              /\ ret' = Ret("precise_correction_mut", sp3,
                            [db |-> db, timescale |-> timescale], r[2])
    /\ nops' = nops + 1
    /\ UNCHANGED <<other, rd, seen>>

NextShift ==
    \/ DoPreciseCorrection

SpecShift == InitShift /\ [][NextShift]_vars

\* C30: when precise_correction_mut returns NoCorrectionAvailable, for the
\* header reference epoch or for the epoch of any entry, the store is as it
\* was before the call: header week, time of week, MJD and time scale, and
\* every key.
C30_FailedCorrectionLeavesStore ==
    ( /\ ret.op = "precise_correction_mut"
      /\ ~ret.out.ok
      /\ ret.out.err = "NoCorrectionAvailable" ) =>
        /\ sp3.header.week = ret.self.header.week
        /\ sp3.header.week_nanos = ret.self.header.week_nanos
        /\ sp3.header.mjd = ret.self.header.mjd
        /\ sp3.header.mjd_fraction = ret.self.header.mjd_fraction
        /\ sp3.header.timescale = ret.self.header.timescale
        /\ DOMAIN sp3.data = DOMAIN ret.self.data

====
